---- MODULE Spec2Model ----
(***************************************************************************)
(* Discovery engine of Local-video-server: the orchestrator                *)
(* (scanner.Detector), the TCP sweep (scanner.NetworkScanner) and the      *)
(* multicast discoverers (scanner.ONVIFScanner, scanner.UPnPScanner).      *)
(*                                                                         *)
(* The specifications below share one set of variables:                    *)
(*   MergeSpec    Detector.mergeDevice / mergeDevices applied to bounded   *)
(*                contributions in every order and grouping                *)
(*   Spec         Detector.Scan: the three tasks and their merges          *)
(*   SweepSpec    NetworkScanner.scanPortsParallel / scanHost goroutines   *)
(*   DiscoverSpec ONVIFScanner.Discover listen loop with a clock           *)
(*   FairSweepSpec SweepSpec with every goroutine scheduled fairly         *)
(*   StampSpec    DiscoveredAt / LastSeen through merge and registry       *)
(*   RtspSpec     rtsp.CheckStream and rtsp.Client against a camera        *)
(*   CacheSpec    registry.DeviceRegistry and its TTL cache                *)
(*   RegSpec      DeviceRegistry.devices under concurrent callers          *)
(*   TagSpec      the Protocol each discovery source records for an input  *)
(*   HostSpec     utils.GetSubnetHosts on one CIDR                         *)
(*   ArpSpec      NetworkScanner.ScanNetwork with its host selection       *)
(*   RedirectSpec HTTP probes of the HLS / DASH / MJPEG / WebRTC detectors *)
(*   SessionSpec  rtsp.Client methods called in any order                  *)
(*   RtspDetectSpec RTSPDetector.Detect on the first response line         *)
(*   RtmpSpec     RTMPDetector.Detect handshake                            *)
(*   StreamsSpec  rtsp.Checker.DiscoverStreams over a list of paths        *)
(*   CodecSpec    sdp.normalizeAudioCodec on bounded codec names           *)
(*   SdpSpec      rtsp.CheckStream after DESCRIBE and sdp.ParseSDP         *)
(*   PagesSpec    web-interface fallback loops of the HTTP detectors       *)
(*   SnapSpec     DeviceRegistry, its Cache and the objects they share     *)
(*   FairHostSpec HostSpec with the loop scheduled fairly                  *)
(***************************************************************************)
EXTENDS Integers, Sequences, FiniteSets, TLC

VARIABLES
    devicesMap,   \* Detector.Scan: devicesMap, IP -> *Device (a Go map)
    inputs,       \* MergeSpec: the contributions as drawn, in input order
    pool,         \* MergeSpec: index -> contribution (possibly pre-merged)
    todo,         \* MergeSpec: indices of pool not yet handed to mergeDevice
    config,       \* models.ScanConfig: Ports, EnableONVIF, EnableUPnP, MaxConcurrency
    ctxDone,      \* the caller's context is cancelled
    sweep,        \* Detector.Scan task 1: pc, devices returned by ScanNetwork, merged count
    onvif,        \* ONVIFScanner.Discover + Detector.Scan task 2: pc, devices map,
                  \* datagrams read, returned slice, merged count
    upnp,         \* UPnPScanner.Discover + Detector.Scan task 3, same fields
    observed,     \* history: <<ip, Type, Port>> seen by any discovery source
    scan,         \* Detector.Scan: pc and the returned list
    sp,           \* scanPortsParallel: pc, next host index, devices, returned list
    hostTask,     \* per host goroutine: state, port goroutines still dialing,
                  \* device.Protocols of scanHost
    semaphore,    \* number of elements in the semaphore channel
    deviceChan,   \* contents of deviceChan (capacity len(hosts))
    foundEarly,   \* history: devices of host tasks that finished before ctx was done
    clock,        \* DiscoverSpec: now (seconds since Discover sent the probe) and
                  \* readBy, the deadline of the pending ReadFromUDP
    stamp,        \* StampSpec: wall clock, the devices the discovery tasks built,
                  \* the merged device of one IP and its copy in the registry
    client,       \* RtspSpec: one rtsp.Client, the requests it sent and the
                  \* position of CheckStream; SessionSpec: the client's fields,
                  \* the state of its connection and the requests written
    registry,     \* CacheSpec: registry.Cache fields, wall clock, last read;
                  \* RegSpec: DeviceRegistry.devices, the writer holding r.mu, a reader
    probe         \* the function-level specifications: the input drawn and the
                  \* position and result of the function applied to it

mergeVars == <<inputs, pool, todo>>
poolVars == <<sp, hostTask, semaphore, deviceChan, foundEarly>>
extVars == <<stamp, client, registry, probe>>
notScanVars == <<mergeVars, poolVars, clock, extVars>>
scanVars == <<config, ctxDone, sweep, onvif, upnp, observed, scan>>
vars == <<devicesMap, inputs, pool, todo, config, ctxDone, sweep, onvif, upnp, observed,
          scan, sp, hostTask, semaphore, deviceChan, foundEarly, clock, stamp, client,
          registry, probe>>

(***************************************************************************)
(* Data model (internal/models/device.go)                                  *)
(***************************************************************************)
IP1 == "10.0.0.5"
IP2 == "10.0.0.7"
IP3 == "10.0.0.9"
IP4 == "10.0.0.8"
IPs == {IP1, IP2}

Protocol(type, port) == [Type |-> type, Port |-> port]

\* fmt.Sprintf("%s:%d", p.Type, p.Port): the pair determines the string and,
\* for tags without ':', the string determines the pair.
ProtocolKey(p) == <<p.Type, p.Port>>

Device(ip, protocols, mac, hostname, manufacturer, model) ==
    [IP |-> ip, Protocols |-> protocols, MAC |-> mac, Hostname |-> hostname,
     Manufacturer |-> manufacturer, Model |-> model]

Range(s) == {s[i] : i \in DOMAIN s}

Keys(protocols) == {ProtocolKey(p) : p \in Range(protocols)}

NoDuplicateKeys(protocols) ==
    \A i, j \in DOMAIN protocols :
        i # j => ProtocolKey(protocols[i]) # ProtocolKey(protocols[j])

(***************************************************************************)
(* Detector.mergeDevices (detector.go 124-157)                             *)
(***************************************************************************)
\* Mutant: the new device's protocols are not appended.
mergeDevicesKeepExisting(existing, new) ==
    [existing EXCEPT
        !.Manufacturer = IF @ = "" /\ new.Manufacturer # "" THEN new.Manufacturer ELSE @,
        !.Model = IF @ = "" /\ new.Model # "" THEN new.Model ELSE @,
        !.Hostname = IF @ = "" /\ new.Hostname # "" THEN new.Hostname ELSE @,
        !.MAC = IF @ = "" /\ new.MAC # "" THEN new.MAC ELSE @]

\* Mutant: a non-empty attribute of the new device always overwrites.
mergeDevicesOverwrite(existing, new) ==
    LET protocolMap == Keys(existing.Protocols)
        fresh == SelectSeq(new.Protocols, LAMBDA p : ProtocolKey(p) \notin protocolMap)
    IN  [existing EXCEPT
            !.Protocols = @ \o fresh,
            !.Manufacturer = IF new.Manufacturer # "" THEN new.Manufacturer ELSE @,
            !.Model = IF new.Model # "" THEN new.Model ELSE @,
            !.Hostname = IF new.Hostname # "" THEN new.Hostname ELSE @,
            !.MAC = IF new.MAC # "" THEN new.MAC ELSE @]

\* protocolMap is built from existing.Protocols only and is not updated while
\* new.Protocols is walked, so each new entry is tested against the old keys.
mergeDevices(existing, new) ==
    LET protocolMap == Keys(existing.Protocols)
        fresh == SelectSeq(new.Protocols, LAMBDA p : ProtocolKey(p) \notin protocolMap)
    IN  [existing EXCEPT
            !.Protocols = @ \o fresh,
            !.Manufacturer = IF @ = "" /\ new.Manufacturer # "" THEN new.Manufacturer ELSE @,
            !.Model = IF @ = "" /\ new.Model # "" THEN new.Model ELSE @,
            !.Hostname = IF @ = "" /\ new.Hostname # "" THEN new.Hostname ELSE @,
            !.MAC = IF @ = "" /\ new.MAC # "" THEN new.MAC ELSE @]

\* Mutant: the map entry is replaced instead of merged.
mergeDeviceReplace(m, device) ==
    [k \in DOMAIN m \cup {device.IP} |-> IF k = device.IP THEN device ELSE m[k]]

\* mergeDevice closure of Detector.Scan (detector.go 43-57), run under mu:
\* the value of devicesMap after the call.
mergeDevice(m, device) ==
    IF device.IP \in DOMAIN m
    THEN [m EXCEPT ![device.IP] = mergeDevices(m[device.IP], device)]
    ELSE [k \in DOMAIN m \cup {device.IP} |-> IF k = device.IP THEN device ELSE m[k]]

EmptyMap == [k \in {} |-> {}]

Perms(S) ==
    {f \in [1..Cardinality(S) -> S] : \A i, j \in 1..Cardinality(S) : i # j => f[i] # f[j]}

\* The values of a Go map in one of the orders a range over it can take.
MapValueOrders(m) == {[k \in DOMAIN order |-> m[order[k]]] : order \in Perms(DOMAIN m)}

PortLists == {<<554>>, <<554, 80>>, <<554, 554>>}

\* The scan variables while another specification runs.
ScanIdle ==
    /\ config = [Ports |-> <<554>>, EnableONVIF |-> FALSE, EnableUPnP |-> FALSE,
                 MaxConcurrency |-> 1]
    /\ ctxDone = FALSE
    /\ sweep = [pc |-> "idle", out |-> <<>>, idx |-> 0]
    /\ onvif = [pc |-> "off", devices |-> EmptyMap, seen |-> 0, out |-> <<>>, idx |-> 0]
    /\ upnp = [pc |-> "off", devices |-> EmptyMap, seen |-> 0, out |-> <<>>, idx |-> 0]
    /\ observed = {}
    /\ scan = [pc |-> "idle", result |-> <<>>]

\* The sweep variables while another specification runs.
PoolIdle ==
    /\ sp = [pc |-> "idle", next |-> 1, devices |-> <<>>, ret |-> <<>>]
    /\ hostTask = <<>>
    /\ semaphore = 0
    /\ deviceChan = <<>>
    /\ foundEarly = {}

ClockIdle == clock = [now |-> 0, readBy |-> 0]

\* The timestamp, RTSP client and registry variables while another
\* specification runs.
StampIdle == stamp = [pc |-> "idle"]

ClientIdle == client = [pc |-> "idle"]

RegistryIdle == registry = [pc |-> "idle"]

ProbeIdle == probe = [pc |-> "idle"]

ExtIdle == StampIdle /\ ClientIdle /\ RegistryIdle /\ ProbeIdle

(***************************************************************************)
(* MergeSpec: the merge function on bounded contributions                  *)
(***************************************************************************)
MaxContribs == 3

RTSP554 == Protocol("RTSP", 554)
HTTP80 == Protocol("HTTP", 80)
ONVIF80 == Protocol("ONVIF", 80)
UPnP80 == Protocol("UPnP", 80)

Contributions ==
    { Device(IP1, <<RTSP554>>, "", "cam1", "", ""),
      Device(IP1, <<RTSP554, HTTP80>>, "aa:01", "", "", ""),
      Device(IP1, <<HTTP80, RTSP554>>, "aa:02", "cam2", "", "M2"),
      Device(IP1, <<ONVIF80>>, "", "", "Acme", "M1"),
      Device(IP1, <<UPnP80>>, "", "", "Samsung", ""),
      Device(IP1, <<ONVIF80, RTSP554>>, "", "", "", ""),
      Device(IP2, <<RTSP554>>, "", "", "Acme", "") }

SeqsUpTo(S, n) == UNION {[1..k -> S] : k \in 1..n}

MergeInit ==
    /\ devicesMap = EmptyMap
    /\ inputs \in SeqsUpTo(Contributions, MaxContribs)
    /\ pool = inputs
    /\ todo = DOMAIN inputs
    /\ ScanIdle
    /\ PoolIdle
    /\ ClockIdle
    /\ ExtIdle

\* One call mergeDevice(pool[i]).
MergeIntoMap(i) ==
    /\ i \in todo
    /\ devicesMap' = mergeDevice(devicesMap, pool[i])
    /\ todo' = todo \ {i}
    /\ UNCHANGED <<inputs, pool>>
    /\ UNCHANGED <<scanVars, poolVars, clock, extVars>>

\* Another grouping: contribution j is merged into contribution i (same IP)
\* before either reaches the map.
Regroup(i, j) ==
    /\ i \in todo /\ j \in todo /\ i # j
    /\ pool[i].IP = pool[j].IP
    /\ pool' = [pool EXCEPT ![i] = mergeDevices(pool[i], pool[j])]
    /\ todo' = todo \ {j}
    /\ UNCHANGED <<devicesMap, inputs>>
    /\ UNCHANGED <<scanVars, poolVars, clock, extVars>>

MergeNext ==
    \/ \E i \in DOMAIN inputs : MergeIntoMap(i)
    \/ \E i, j \in DOMAIN inputs : Regroup(i, j)

MergeSpec == MergeInit /\ [][MergeNext]_vars

(***************************************************************************)
(* Claims on MergeSpec                                                     *)
(***************************************************************************)
Attrs == {"MAC", "Hostname", "Manufacturer", "Model"}

InputsFor(ip) == {i \in DOMAIN inputs : inputs[i].IP = ip}

RECURSIVE MergeInOrder(_, _, _)
\* mergeDevice applied to s[i], s[i+1], ... in index order.
MergeInOrder(m, s, i) ==
    IF i > Len(s) THEN m ELSE MergeInOrder(mergeDevice(m, s[i]), s, i + 1)

InInputOrder == MergeInOrder(EmptyMap, inputs, 1)

AllMerged == todo = {}

\* C9 (as stated): whatever the order and grouping of the merges, the merged
\* device of every IP is the one obtained by merging in input order: same
\* protocol set and same MAC, hostname, manufacturer and model.
C9_MergeOrderIndependent ==
    AllMerged =>
        /\ DOMAIN devicesMap = DOMAIN InInputOrder
        /\ \A ip \in DOMAIN devicesMap :
              /\ Keys(devicesMap[ip].Protocols) = Keys(InInputOrder[ip].Protocols)
              /\ \A a \in Attrs : devicesMap[ip][a] = InInputOrder[ip][a]

\* C9 (amended): in every order and grouping the merged device of an IP has
\* the same protocol set, the union of the contributions' (Type, Port) pairs;
\* a scalar attribute is order-independent when the contributions carry at most
\* one distinct non-empty value for it, and otherwise is one of the contributed
\* non-empty values (the one merged first).
C9_ProtocolSetOrderIndependent ==
    AllMerged =>
        /\ DOMAIN devicesMap = {inputs[i].IP : i \in DOMAIN inputs}
        /\ \A ip \in DOMAIN devicesMap :
              /\ Keys(devicesMap[ip].Protocols) =
                    UNION {Keys(inputs[i].Protocols) : i \in InputsFor(ip)}
              /\ Keys(devicesMap[ip].Protocols) = Keys(InInputOrder[ip].Protocols)
              /\ \A a \in Attrs :
                    LET given == {inputs[i][a] : i \in InputsFor(ip)} \ {""}
                    IN  /\ given = {} => devicesMap[ip][a] = ""
                        /\ given # {} => devicesMap[ip][a] \in given
                        /\ Cardinality(given) <= 1 =>
                              devicesMap[ip][a] = InInputOrder[ip][a]

\* Three contributions for one IP were merged in an order other than the input
\* order, and the merged manufacturer differs from the input-order one.
C9_Witness ==
    /\ AllMerged
    /\ Cardinality(InputsFor(IP1)) = 3
    /\ devicesMap[IP1].Protocols # InInputOrder[IP1].Protocols
    /\ devicesMap[IP1].Manufacturer # InInputOrder[IP1].Manufacturer

\* The attributes of the map entry of c.IP after mergeDevice(c): a non-empty
\* attribute is kept, an empty one takes c's value.
FirstNonEmptyWins(i) ==
    LET c == pool[i]
    IN  \A a \in Attrs :
            devicesMap'[c.IP][a] =
                IF c.IP \in DOMAIN devicesMap /\ devicesMap[c.IP][a] # ""
                THEN devicesMap[c.IP][a]
                ELSE c[a]

\* C10: in every merge step, each scalar attribute (MAC, hostname,
\* manufacturer, model) of the merged device keeps its value when it is
\* non-empty and otherwise takes the value of the contribution being merged, so
\* the first non-empty value wins; no step changes another IP's attributes.
C10_FirstNonEmptyWins ==
    [][ /\ \A i \in todo : MergeIntoMap(i) => FirstNonEmptyWins(i)
        /\ \A ip \in DOMAIN devicesMap : \A a \in Attrs :
              devicesMap[ip][a] # "" => devicesMap'[ip][a] = devicesMap[ip][a] ]_vars

\* A later contribution with another MAC and hostname was merged into a device
\* that already had both, and an empty model was filled in.
C10_Witness ==
    /\ AllMerged
    /\ inputs = << Device(IP1, <<RTSP554, HTTP80>>, "aa:01", "", "", ""),
                   Device(IP1, <<RTSP554>>, "", "cam1", "", ""),
                   Device(IP1, <<HTTP80, RTSP554>>, "aa:02", "cam2", "", "M2") >>
    /\ pool = inputs
    /\ devicesMap[IP1].MAC = "aa:01"
    /\ devicesMap[IP1].Hostname = "cam1"
    /\ devicesMap[IP1].Model = "M2"

(***************************************************************************)
(* Environment of a scan: the hosts of the subnet, the ports that accept a *)
(* TCP connection, reverse DNS, and the datagrams that may arrive          *)
(***************************************************************************)
\* Ports of a host on which a connect can succeed (it may still fail: timeout,
\* cancellation).
OpenPorts(ip) ==
    CASE ip = IP1 -> {554, 80}
      [] ip = IP2 -> {80}
      [] ip = IP3 -> {554}
      [] OTHER -> {1935}

\* What answers on an open port, i.e. what a confirmation probe would find:
\* 10.0.0.5 is an RTSP camera with a web page, 10.0.0.7 serves an HLS playlist
\* on port 80, 10.0.0.9 has another service on 554, 10.0.0.8 is an RTMP server.
PeerSpeaks(ip, port) ==
    CASE ip = IP1 /\ port = 554 -> "RTSP"
      [] ip = IP2 /\ port = 80 -> "HLS"
      [] ip = IP4 /\ port = 1935 -> "RTMP"
      [] OTHER -> "NONE"

\* utils.ResolveHostname: the PTR name, "" when the lookup fails.
ResolveHostname(ip) == IF ip = IP1 THEN "cam1.lan" ELSE ""

\* WS-Discovery datagrams: the source address, the host and port of the first
\* XAddrs URL (XAddrIP "" when the host is not an IP literal, XAddrPort 0 when
\* the URL names no port), and the hardware / name scopes.
OnvifDatagrams ==
    { [Valid |-> TRUE, SourceIP |-> IP1, XAddrIP |-> IP1, XAddrPort |-> 0,
       Hardware |-> "Acme", Name |-> "M1"],
      [Valid |-> TRUE, SourceIP |-> IP1, XAddrIP |-> "", XAddrPort |-> 8080,
       Hardware |-> "", Name |-> ""],
      [Valid |-> TRUE, SourceIP |-> IP2, XAddrIP |-> IP2, XAddrPort |-> 80,
       Hardware |-> "", Name |-> "M2"],
      [Valid |-> FALSE, SourceIP |-> IP2, XAddrIP |-> "", XAddrPort |-> 0,
       Hardware |-> "", Name |-> ""] }

\* SSDP datagrams: the source address, the host and port of LOCATION
\* (LocationIP "" when LOCATION is absent or names no IP literal), and the
\* manufacturer parseServerHeader finds in SERVER ("" when none is known).
SsdpDatagrams ==
    { [Valid |-> TRUE, SourceIP |-> IP1, LocationIP |-> IP1, LocationPort |-> 49152,
       ServerVendor |-> "Samsung"],
      [Valid |-> TRUE, SourceIP |-> IP1, LocationIP |-> "", LocationPort |-> 0,
       ServerVendor |-> ""],
      [Valid |-> TRUE, SourceIP |-> IP2, LocationIP |-> IP2, LocationPort |-> 0,
       ServerVendor |-> ""],
      [Valid |-> FALSE, SourceIP |-> IP2, LocationIP |-> "", LocationPort |-> 0,
       ServerVendor |-> ""] }

MaxDatagrams == 2

(***************************************************************************)
(* NetworkScanner: detectProtocol, scanHost, ScanNetwork (results)         *)
(***************************************************************************)
\* The tag is chosen from the port number alone; no probe is sent.
detectProtocol(ip, port) ==
    CASE port \in {554, 8554} -> Protocol("RTSP", port)
      [] port = 1935 -> Protocol("RTMP", port)
      [] port \in {80, 8080} -> Protocol("HTTP", port)
      [] OTHER -> Protocol("UNKNOWN", port)

\* The devices scanHost(ip) can return: one protocol per index of the port
\* list whose connect succeeded, appended in the order the port goroutines
\* finish; no device when no connect succeeded.
scanHostOutcomes(ports, ip) ==
    LET canOpen == {i \in DOMAIN ports : ports[i] \in OpenPorts(ip)}
        orders == UNION {Perms(I) : I \in (SUBSET canOpen) \ {{}}}
    IN  { Device(ip, [k \in DOMAIN order |-> detectProtocol(ip, ports[order[k]])],
                 "", ResolveHostname(ip), "", "") : order \in orders }

\* The lists ScanNetwork can return: the devices of any set of hosts, in the
\* order they reach deviceChan (the empty list after an early cancellation).
ScanNetworkOutcomes(ports, hosts) ==
    UNION { { out \in [DOMAIN order -> UNION {scanHostOutcomes(ports, ip) : ip \in hosts}] :
                \A k \in DOMAIN order : out[k] \in scanHostOutcomes(ports, order[k]) }
            : order \in UNION {Perms(H) : H \in SUBSET hosts} }

(***************************************************************************)
(* ONVIFScanner (onvif.go) and UPnPScanner (upnp.go): parse and merge      *)
(***************************************************************************)
parseProbeMatch(dg) ==
    Device(IF dg.XAddrIP # "" THEN dg.XAddrIP ELSE dg.SourceIP,
           <<Protocol("ONVIF", IF dg.XAddrPort > 0 THEN dg.XAddrPort ELSE 80)>>,
           "", "", dg.Hardware, dg.Name)

parseSSDPResponse(dg) ==
    Device(IF dg.LocationIP # "" THEN dg.LocationIP ELSE dg.SourceIP,
           <<Protocol("UPnP", IF dg.LocationIP # "" /\ dg.LocationPort > 0
                              THEN dg.LocationPort ELSE 80)>>,
           "", "", dg.ServerVendor, "")

\* mergeDeviceInfo of both scanners: protocolMap is keyed by p.Type alone; MAC
\* is not touched.
mergeDeviceInfo(existing, new) ==
    LET protocolMap == {p.Type : p \in Range(existing.Protocols)}
        fresh == SelectSeq(new.Protocols, LAMBDA p : p.Type \notin protocolMap)
    IN  [existing EXCEPT
            !.Protocols = @ \o fresh,
            !.Manufacturer = IF @ = "" /\ new.Manufacturer # "" THEN new.Manufacturer ELSE @,
            !.Model = IF @ = "" /\ new.Model # "" THEN new.Model ELSE @,
            !.Hostname = IF @ = "" /\ new.Hostname # "" THEN new.Hostname ELSE @]

\* The devices map of Discover after one parsed response.
addDiscovered(devices, device) ==
    IF device.IP \in DOMAIN devices
    THEN [devices EXCEPT ![device.IP] = mergeDeviceInfo(devices[device.IP], device)]
    ELSE [k \in DOMAIN devices \cup {device.IP} |->
            IF k = device.IP THEN device ELSE devices[k]]

ObservedOf(device) == {<<device.IP, p.Type, p.Port>> : p \in Range(device.Protocols)}

\* Discover returns devicesToSlice(devices); the task then merges the slice.
Returned(task, out) ==
    [task EXCEPT !.pc = IF out = <<>> THEN "done" ELSE "merging", !.out = out]

\* The task at the top of the next iteration of the listen loop: it has
\* returned when the loop stops there, and listens on otherwise.
LoopTop(task, stop) ==
    IF stop THEN {Returned(task, out) : out \in MapValueOrders(task.devices)} ELSE {task}

\* One iteration of "for _, device := range devices { mergeDevice(device) }".
MergedOne(task) ==
    [task EXCEPT !.idx = @ + 1, !.pc = IF task.idx + 1 = Len(task.out) THEN "done" ELSE @]

(***************************************************************************)
(* Spec: Detector.Scan                                                     *)
(***************************************************************************)
DiscoveryTimeout == 2
MaxTime == 4

\* onvif.go 127: time.Now().After(time.Now().Add(timeout)), both clock
\* readings taken at the same moment t.
OnvifTimeoutElapsed(t, timeout) == t > t + timeout

\* upnp.go 96-97: the loop runs while time.Now().Before(deadline)
UpnpDeadlinePassed(t, deadline) == ~(t < deadline)

\* The subnet strings handed to Detector.Scan, as address and prefix length.
Subnets == {[Addr |-> "10.0.0.0", Bits |-> 24], [Addr |-> "10.0.0.0", Bits |-> 33]}

\* utils.ParseSubnet succeeds: net.ParseCIDR accepts an IPv4 prefix length of
\* 0 to 32.
ParseSubnetOk(subnet) == subnet.Bits \in 0..32

MergeIdle ==
    /\ inputs = <<>>
    /\ pool = <<>>
    /\ todo = {}

Init ==
    /\ MergeIdle
    /\ PoolIdle
    /\ ClockIdle
    /\ ExtIdle
    /\ devicesMap = EmptyMap
    /\ config \in [Ports : PortLists, EnableONVIF : BOOLEAN, EnableUPnP : BOOLEAN,
                   MaxConcurrency : {1}]
    /\ ctxDone = FALSE
    /\ sweep = [pc |-> "scanning", out |-> <<>>, idx |-> 0]
    /\ onvif = [pc |-> IF config.EnableONVIF THEN "listening" ELSE "off",
                devices |-> EmptyMap, seen |-> 0, out |-> <<>>, idx |-> 0]
    /\ upnp = [pc |-> IF config.EnableUPnP THEN "listening" ELSE "off",
               devices |-> EmptyMap, seen |-> 0, out |-> <<>>, idx |-> 0]
    /\ observed = {}
    /\ scan \in [pc : {"waiting"}, result : {<<>>}, err : {"nil"}, subnet : Subnets]

\* The caller cancels ctx.
Cancel ==
    /\ scan.pc = "waiting"
    /\ ~ctxDone
    /\ ctxDone' = TRUE
    /\ UNCHANGED <<devicesMap, notScanVars, config, sweep, onvif, upnp, observed, scan>>

\* Task 1: d.networkScanner.ScanNetwork(ctx, subnet) returns an error: the
\* host list cannot be built (getActiveHosts and the fallback GetSubnetHosts
\* both fail in utils.ParseSubnet).  The task logs a warning and ends.
ScanNetworkFail ==
    /\ sweep.pc = "scanning"
    /\ ~ParseSubnetOk(scan.subnet)
    /\ sweep' = [sweep EXCEPT !.pc = "failed"]
    /\ UNCHANGED <<devicesMap, notScanVars, config, ctxDone, onvif, upnp, observed, scan>>

\* Task 1: d.networkScanner.ScanNetwork(ctx, subnet) returns.
ScanNetworkReturn ==
    /\ sweep.pc = "scanning"
    /\ ParseSubnetOk(scan.subnet)
    /\ \E out \in ScanNetworkOutcomes(config.Ports, IPs) :
          /\ sweep' = Returned(sweep, out)
          /\ observed' = observed \cup UNION {ObservedOf(out[k]) : k \in DOMAIN out}
    /\ UNCHANGED <<devicesMap, notScanVars, config, ctxDone, onvif, upnp, scan>>

SweepMerge ==
    /\ sweep.pc = "merging"
    /\ devicesMap' = mergeDevice(devicesMap, sweep.out[sweep.idx + 1])
    /\ sweep' = MergedOne(sweep)
    /\ UNCHANGED <<notScanVars, config, ctxDone, onvif, upnp, observed, scan>>

\* Task 2: Discover returns an error before it listens (the UDP socket cannot
\* be created or the Probe cannot be sent).  The task logs a warning and ends.
OnvifFail ==
    /\ onvif.pc = "listening"
    /\ onvif.seen = 0
    /\ onvif' = [onvif EXCEPT !.pc = "failed"]
    /\ UNCHANGED <<devicesMap, notScanVars, config, ctxDone, sweep, upnp, observed, scan>>

\* Task 2, Discover loop: ReadFromUDP delivers a datagram, which is parsed
\* and merged; the next iteration returns on ctx.Done().
OnvifReceive(dg) ==
    /\ onvif.pc = "listening"
    /\ onvif.seen < MaxDatagrams
    /\ IF dg.Valid
       THEN /\ onvif' \in LoopTop([onvif EXCEPT !.seen = @ + 1,
                                     !.devices = addDiscovered(@, parseProbeMatch(dg))],
                                  ctxDone)
            /\ observed' = observed \cup ObservedOf(parseProbeMatch(dg))
       ELSE /\ onvif' \in LoopTop([onvif EXCEPT !.seen = @ + 1], ctxDone)
            /\ UNCHANGED observed
    /\ UNCHANGED <<devicesMap, notScanVars, config, ctxDone, sweep, upnp, scan>>

\* Task 2, Discover loop: ReadFromUDP times out after its 1 s deadline; the
\* loop returns when the overall-timeout test passes at the clock reading of
\* that moment, and otherwise at the next iteration on ctx.Done().
OnvifReadTimeout ==
    /\ onvif.pc = "listening"
    /\ \E elapsed \in {OnvifTimeoutElapsed(t, DiscoveryTimeout) : t \in 0..MaxTime} :
          onvif' \in LoopTop(onvif, elapsed \/ ctxDone)
    /\ UNCHANGED <<devicesMap, notScanVars, config, ctxDone, sweep, upnp, observed, scan>>

OnvifMerge ==
    /\ onvif.pc = "merging"
    /\ devicesMap' = mergeDevice(devicesMap, onvif.out[onvif.idx + 1])
    /\ onvif' = MergedOne(onvif)
    /\ UNCHANGED <<notScanVars, config, ctxDone, sweep, upnp, observed, scan>>

\* Task 3: Discover returns an error before it listens (the UDP socket cannot
\* be created).  The task logs a warning and ends.
UpnpFail ==
    /\ upnp.pc = "listening"
    /\ upnp.seen = 0
    /\ upnp' = [upnp EXCEPT !.pc = "failed"]
    /\ UNCHANGED <<devicesMap, notScanVars, config, ctxDone, sweep, onvif, observed, scan>>

\* Task 3, Discover loop: ReadFromUDP delivers a datagram, which is parsed
\* and merged; the loop ends when the deadline has passed at the clock reading
\* of that moment or ctx is done.
UpnpReceive(dg) ==
    /\ upnp.pc = "listening"
    /\ upnp.seen < MaxDatagrams
    /\ \E passed \in {UpnpDeadlinePassed(t, DiscoveryTimeout) : t \in 0..MaxTime} :
          IF dg.Valid
          THEN /\ upnp' \in LoopTop([upnp EXCEPT !.seen = @ + 1,
                                       !.devices = addDiscovered(@, parseSSDPResponse(dg))],
                                    passed \/ ctxDone)
               /\ observed' = observed \cup ObservedOf(parseSSDPResponse(dg))
          ELSE /\ upnp' \in LoopTop([upnp EXCEPT !.seen = @ + 1], passed \/ ctxDone)
               /\ UNCHANGED observed
    /\ UNCHANGED <<devicesMap, notScanVars, config, ctxDone, sweep, onvif, scan>>

\* Task 3, Discover loop: ReadFromUDP times out at its deadline.
UpnpReadTimeout ==
    /\ upnp.pc = "listening"
    /\ \E passed \in {UpnpDeadlinePassed(t, DiscoveryTimeout) : t \in 0..MaxTime} :
          upnp' \in LoopTop(upnp, passed \/ ctxDone)
    /\ UNCHANGED <<devicesMap, notScanVars, config, ctxDone, sweep, onvif, observed, scan>>

UpnpMerge ==
    /\ upnp.pc = "merging"
    /\ devicesMap' = mergeDevice(devicesMap, upnp.out[upnp.idx + 1])
    /\ upnp' = MergedOne(upnp)
    /\ UNCHANGED <<notScanVars, config, ctxDone, sweep, onvif, observed, scan>>

\* Every task has called wg.Done().
AllTasksDone ==
    /\ sweep.pc \in {"done", "failed"}
    /\ onvif.pc \in {"off", "done", "failed"}
    /\ upnp.pc \in {"off", "done", "failed"}

\* Mutant: the join reports the failure of a task as the error of the scan.
ScanReturnJoinError ==
    /\ scan.pc = "waiting"
    /\ AllTasksDone
    /\ \E result \in MapValueOrders(devicesMap) :
          scan' = [scan EXCEPT !.pc = "returned", !.result = result,
                               !.err = IF "failed" \in {sweep.pc, onvif.pc, upnp.pc}
                                       THEN "discovery failed" ELSE "nil"]
    /\ UNCHANGED <<devicesMap, notScanVars, config, ctxDone, sweep, onvif, upnp, observed>>

\* wg.Wait() returns; the map is copied into the result slice and returned
\* with a nil error.
ScanReturn ==
    /\ scan.pc = "waiting"
    /\ AllTasksDone
    /\ \E result \in MapValueOrders(devicesMap) :
          scan' = [scan EXCEPT !.pc = "returned", !.result = result, !.err = "nil"]
    /\ UNCHANGED <<devicesMap, notScanVars, config, ctxDone, sweep, onvif, upnp, observed>>

Next ==
    \/ Cancel
    \/ ScanNetworkFail
    \/ ScanNetworkReturn
    \/ SweepMerge
    \/ \E dg \in OnvifDatagrams : OnvifReceive(dg)
    \/ OnvifFail
    \/ OnvifReadTimeout
    \/ OnvifMerge
    \/ \E dg \in SsdpDatagrams : UpnpReceive(dg)
    \/ UpnpFail
    \/ UpnpReadTimeout
    \/ UpnpMerge
    \/ ScanReturn

Spec == Init /\ [][Next]_vars

(***************************************************************************)
(* Claims on Spec                                                          *)
(***************************************************************************)
ScanReturned == scan.pc = "returned"

\* The devices a task handed to mergeDevice for ip.
ContributionsFor(ip) ==
    {d \in Range(sweep.out) \cup Range(onvif.out) \cup Range(upnp.out) : d.IP = ip}

\* The tasks whose result list names ip.
SourcesOf(ip) ==
    {name \in {"sweep", "onvif", "upnp"} :
        LET t == CASE name = "sweep" -> sweep [] name = "onvif" -> onvif [] OTHER -> upnp
        IN  \E k \in DOMAIN t.out : t.out[k].IP = ip}

Count(key, protocols) ==
    Cardinality({i \in DOMAIN protocols : ProtocolKey(protocols[i]) = key})

ResultFor(ip) == {i \in DOMAIN scan.result : scan.result[i].IP = ip}

C2_ProtocolsNonEmptyAndUnique ==
    ScanReturned =>
        \A i \in DOMAIN scan.result :
            /\ scan.result[i].Protocols # <<>>
            /\ NoDuplicateKeys(scan.result[i].Protocols)

\* C3: every (Type, Port) pair a discovery source observed for an IP during
\* the scan is present in that IP's device in the returned list.
C3_MergeIsUnion ==
    ScanReturned =>
        \A o \in observed :
            \E i \in DOMAIN scan.result :
                /\ scan.result[i].IP = o[1]
                /\ <<o[2], o[3]>> \in Keys(scan.result[i].Protocols)

\* The tasks that returned an error.
FailedTasks ==
    {name \in {"sweep", "onvif", "upnp"} :
        (CASE name = "sweep" -> sweep [] name = "onvif" -> onvif [] OTHER -> upnp).pc = "failed"}

\* C13: Detector.Scan called with a malformed subnet string returns a non-nil
\* error.
C13_InvalidCIDRIsFatal ==
    (ScanReturned /\ ~ParseSubnetOk(scan.subnet)) => scan.err # "nil"

\* C14: when a discovery task returns an error, Detector.Scan still returns
\* with a nil error, and the returned list holds exactly the devices merged
\* from the other tasks: one device per contributed IP, with the union of
\* the contributions' protocols.
C14_TaskFailureIsNotFatal ==
    (ScanReturned /\ FailedTasks # {}) =>
        /\ scan.err = "nil"
        /\ \A name \in FailedTasks : \A ip \in IPs : name \notin SourcesOf(ip)
        /\ \A ip \in IPs :
              IF ContributionsFor(ip) = {}
              THEN ResultFor(ip) = {}
              ELSE /\ Cardinality(ResultFor(ip)) = 1
                   /\ \A i \in ResultFor(ip) :
                         Keys(scan.result[i].Protocols) =
                            UNION {Keys(c.Protocols) : c \in ContributionsFor(ip)}

\* The sweep failed on a malformed subnet while ONVIF discovery reported
\* 10.0.0.5; the scan returned that device and no error.
C14_Witness ==
    /\ ScanReturned
    /\ FailedTasks = {"sweep"}
    /\ onvif.pc = "done"
    /\ scan.err = "nil"
    /\ \E i \in DOMAIN scan.result :
          /\ scan.result[i].IP = IP1
          /\ Keys(scan.result[i].Protocols) = {<<"ONVIF", 80>>}

(***************************************************************************)
(* SweepSpec: NetworkScanner.scanPortsParallel, scanHost, isPortOpen       *)
(***************************************************************************)
NumHosts == 3
MaxWidth == 2

SubnetHosts == <<IP1, IP2, IP3, IP4>>
HostIP(h) == SubnetHosts[h]
Hosts == 1..NumHosts

Scanning == {h \in Hosts : hostTask[h].st = "scanning"}

SweepInit ==
    /\ MergeIdle
    /\ ClockIdle
    /\ ExtIdle
    /\ devicesMap = EmptyMap
    /\ config \in [Ports : PortLists, EnableONVIF : {FALSE}, EnableUPnP : {FALSE},
                   MaxConcurrency : 0..MaxWidth]
    /\ ctxDone = FALSE
    /\ sweep = [pc |-> "scanning", out |-> <<>>, idx |-> 0]
    /\ onvif = [pc |-> "off", devices |-> EmptyMap, seen |-> 0, out |-> <<>>, idx |-> 0]
    /\ upnp = [pc |-> "off", devices |-> EmptyMap, seen |-> 0, out |-> <<>>, idx |-> 0]
    /\ observed = {}
    /\ scan = [pc |-> "waiting", result |-> <<>>]
    /\ sp = [pc |-> "dispatch", next |-> 1, devices |-> <<>>, ret |-> <<>>]
    /\ hostTask = [h \in Hosts |-> [st |-> "none", dial |-> {}, protocols |-> <<>>]]
    /\ semaphore = 0
    /\ deviceChan = <<>>
    /\ foundEarly = {}

sweepFrame ==
    <<devicesMap, mergeVars, config, sweep, onvif, upnp, observed, scan, clock, extVars>>

\* The caller cancels ctx.
SweepCancel ==
    /\ ~ctxDone
    /\ ctxDone' = TRUE
    /\ UNCHANGED <<sweepFrame, poolVars>>

\* Dispatch loop, default branch of the select: wg.Add(1); go func(ip).
Dispatch ==
    /\ sp.pc = "dispatch"
    /\ ~ctxDone
    /\ hostTask' = [hostTask EXCEPT ![sp.next].st = "waiting"]
    /\ sp' = [sp EXCEPT !.next = @ + 1,
                        !.pc = IF sp.next = NumHosts THEN "collect" ELSE @]
    /\ UNCHANGED <<sweepFrame, ctxDone, semaphore, deviceChan, foundEarly>>

\* Dispatch loop, case <-ctx.Done(): return devices.
DispatchCancelled ==
    /\ sp.pc = "dispatch"
    /\ ctxDone
    /\ sp' = [sp EXCEPT !.pc = "returned", !.ret = sp.devices]
    /\ UNCHANGED <<sweepFrame, ctxDone, hostTask, semaphore, deviceChan, foundEarly>>

\* Mutant: the goroutine starts scanHost without taking a semaphore slot.
AcquireUnbounded(h) ==
    /\ hostTask[h].st = "waiting"
    /\ semaphore' = semaphore + 1
    /\ hostTask' = [hostTask EXCEPT ![h] = [st |-> "scanning",
                                            dial |-> DOMAIN config.Ports,
                                            protocols |-> <<>>]]
    /\ UNCHANGED <<sweepFrame, ctxDone, sp, deviceChan, foundEarly>>

\* Host goroutine: semaphore <- struct{}{} succeeds, scanHost starts and
\* spawns one goroutine per entry of config.Ports, each calling isPortOpen.
Acquire(h) ==
    /\ hostTask[h].st = "waiting"
    /\ semaphore < config.MaxConcurrency
    /\ semaphore' = semaphore + 1
    /\ hostTask' = [hostTask EXCEPT ![h] = [st |-> "scanning",
                                            dial |-> DOMAIN config.Ports,
                                            protocols |-> <<>>]]
    /\ UNCHANGED <<sweepFrame, ctxDone, sp, deviceChan, foundEarly>>

\* Port goroutine i of host h: DialContext returns. It can succeed only on an
\* open port and while ctx is not done; on success detectProtocol's result is
\* appended under the host's mutex.
DialDone(h, i, ok) ==
    /\ hostTask[h].st = "scanning"
    /\ i \in hostTask[h].dial
    /\ ok => (config.Ports[i] \in OpenPorts(HostIP(h)) /\ ~ctxDone)
    /\ hostTask' = [hostTask EXCEPT
          ![h].dial = @ \ {i},
          ![h].protocols = IF ok THEN Append(@, detectProtocol(HostIP(h), config.Ports[i]))
                           ELSE @]
    /\ UNCHANGED <<sweepFrame, ctxDone, sp, semaphore, deviceChan, foundEarly>>

\* scanHost: wg.Wait() returns; a device with protocols is sent to deviceChan
\* (never blocks: capacity len(hosts)); the slot is released.
HostFinish(h) ==
    /\ hostTask[h].st = "scanning"
    /\ hostTask[h].dial = {}
    /\ LET device == Device(HostIP(h), hostTask[h].protocols, "",
                            ResolveHostname(HostIP(h)), "", "")
       IN  IF hostTask[h].protocols # <<>>
           THEN /\ deviceChan' = Append(deviceChan, device)
                /\ foundEarly' = IF ctxDone THEN foundEarly ELSE foundEarly \cup {device}
           ELSE UNCHANGED <<deviceChan, foundEarly>>
    /\ semaphore' = semaphore - 1
    /\ hostTask' = [hostTask EXCEPT ![h].st = "finished"]
    /\ UNCHANGED <<sweepFrame, ctxDone, sp>>

\* Collect loop: one device received from deviceChan.
Collect ==
    /\ sp.pc = "collect"
    /\ deviceChan # <<>>
    /\ sp' = [sp EXCEPT !.devices = Append(@, Head(deviceChan))]
    /\ deviceChan' = Tail(deviceChan)
    /\ UNCHANGED <<sweepFrame, ctxDone, hostTask, semaphore, foundEarly>>

\* wg.Wait() returned and deviceChan was closed and is drained: return devices.
CollectEnd ==
    /\ sp.pc = "collect"
    /\ deviceChan = <<>>
    /\ \A h \in Hosts : hostTask[h].st = "finished"
    /\ sp' = [sp EXCEPT !.pc = "returned", !.ret = sp.devices]
    /\ UNCHANGED <<sweepFrame, ctxDone, hostTask, semaphore, deviceChan, foundEarly>>

SweepNext ==
    \/ SweepCancel
    \/ Dispatch
    \/ DispatchCancelled
    \/ \E h \in Hosts : Acquire(h)
    \/ \E h \in Hosts : \E i \in DOMAIN config.Ports : \E ok \in BOOLEAN : DialDone(h, i, ok)
    \/ \E h \in Hosts : HostFinish(h)
    \/ Collect
    \/ CollectEnd

SweepSpec == SweepInit /\ [][SweepNext]_vars

\* The list scanPortsParallel returns is one of the lists the Detector.Scan
\* model draws for ScanNetwork.
SweepReturnsAnOutcome ==
    sp.pc = "returned" =>
        sp.ret \in ScanNetworkOutcomes(config.Ports, {HostIP(h) : h \in Hosts})

\* The Go scheduler runs every goroutine that can take a step: the dispatch
\* and collect loops of scanPortsParallel, each host goroutine, and each dial
\* (DialContext ends at its timeout or when ctx is done).  The caller is not
\* obliged to cancel.
FairSweepSpec ==
    /\ SweepSpec
    /\ WF_vars(Dispatch)
    /\ WF_vars(DispatchCancelled)
    /\ \A h \in Hosts : WF_vars(Acquire(h))
    /\ \A h \in Hosts :
          WF_vars(\E i \in DOMAIN config.Ports : \E ok \in BOOLEAN : DialDone(h, i, ok))
    /\ \A h \in Hosts : WF_vars(HostFinish(h))
    /\ WF_vars(Collect)
    /\ WF_vars(CollectEnd)

(***************************************************************************)
(* Claims on SweepSpec                                                     *)
(***************************************************************************)
\* C4: when scanPortsParallel returns, every device found by a host task that
\* finished before the context was cancelled is in the returned list, also
\* when the cancellation arrives while host tasks are still being dispatched.
C4_PartialResultsReturned ==
    sp.pc = "returned" => \A d \in foundEarly : d \in Range(sp.ret)

\* C6: at every moment the number of running scanHost executions is at most
\* max_concurrency.
C6_HostTasksBounded == Cardinality(Scanning) <= config.MaxConcurrency

\* max_concurrency host tasks are running and another one waits for a slot.
C6_Witness ==
    /\ config.MaxConcurrency >= 1
    /\ Cardinality(Scanning) = config.MaxConcurrency
    /\ \E h \in Hosts : hostTask[h].st = "waiting"

OutstandingDials(h) == IF hostTask[h].st = "scanning" THEN Cardinality(hostTask[h].dial) ELSE 0

RECURSIVE SumDials(_)
SumDials(H) ==
    IF H = {} THEN 0
    ELSE LET h == CHOOSE x \in H : TRUE IN OutstandingDials(h) + SumDials(H \ {h})

\* C7: at every moment the number of outstanding TCP connect attempts, summed
\* over all hosts and ports, is at most max_concurrency.
C7_ConnectsBounded == SumDials(Hosts) <= config.MaxConcurrency

\* C8: a Protocol with a media tag is in the sweep's result only when the
\* peer on that port speaks the protocol (the confirmation probe would
\* succeed), and an open port 80 that serves an HLS playlist is recorded with
\* the tag HLS.
C8_TagsAreConfirmed ==
    sp.pc = "returned" =>
        \A k \in DOMAIN sp.ret : \A p \in Range(sp.ret[k].Protocols) :
            /\ p.Type \in {"RTSP", "RTMP"} => PeerSpeaks(sp.ret[k].IP, p.Port) = p.Type
            /\ PeerSpeaks(sp.ret[k].IP, p.Port) = "HLS" => p.Type = "HLS"

(***************************************************************************)
(* DiscoverSpec: ONVIFScanner.Discover alone, with a clock.  Time passes   *)
(* only while the loop is blocked in ReadFromUDP, and not beyond the read  *)
(* deadline.                                                               *)
(***************************************************************************)
DiscoverInit ==
    /\ MergeIdle
    /\ PoolIdle
    /\ ExtIdle
    /\ devicesMap = EmptyMap
    /\ config = [Ports |-> <<554>>, EnableONVIF |-> TRUE, EnableUPnP |-> FALSE,
                 MaxConcurrency |-> 1]
    /\ ctxDone = FALSE
    /\ sweep = [pc |-> "idle", out |-> <<>>, idx |-> 0]
    /\ onvif = [pc |-> "listening", devices |-> EmptyMap, seen |-> 0, out |-> <<>>, idx |-> 0]
    /\ upnp = [pc |-> "off", devices |-> EmptyMap, seen |-> 0, out |-> <<>>, idx |-> 0]
    /\ observed = {}
    /\ scan = [pc |-> "idle", result |-> <<>>]
    /\ clock = [now |-> 0, readBy |-> 1]

discoverFrame == <<devicesMap, mergeVars, poolVars, config, sweep, upnp, scan, extVars>>

\* The top of the next loop iteration: return on ctx.Done() (or stop), else
\* SetReadDeadline(now + 1 s) and read again.
NextIteration(o, stop) ==
    /\ onvif' \in LoopTop(o, stop)
    /\ clock' = IF stop THEN clock ELSE [clock EXCEPT !.readBy = clock.now + 1]

DiscoverCancel ==
    /\ ~ctxDone
    /\ ctxDone' = TRUE
    /\ UNCHANGED <<discoverFrame, onvif, observed, clock>>

\* One second passes while ReadFromUDP is blocked.
DiscoverTick ==
    /\ onvif.pc = "listening"
    /\ clock.now < clock.readBy
    /\ clock.now < MaxTime
    /\ clock' = [clock EXCEPT !.now = @ + 1]
    /\ UNCHANGED <<discoverFrame, ctxDone, onvif, observed>>

\* ReadFromUDP delivers a datagram; it is parsed and merged.
DiscoverReceive(dg) ==
    /\ onvif.pc = "listening"
    /\ onvif.seen < MaxDatagrams
    /\ IF dg.Valid
       THEN /\ NextIteration([onvif EXCEPT !.seen = @ + 1,
                                !.devices = addDiscovered(@, parseProbeMatch(dg))],
                             ctxDone)
            /\ observed' = observed \cup ObservedOf(parseProbeMatch(dg))
       ELSE /\ NextIteration([onvif EXCEPT !.seen = @ + 1], ctxDone)
            /\ UNCHANGED observed
    /\ UNCHANGED <<discoverFrame, ctxDone>>

\* ReadFromUDP fails with a timeout at its deadline: return when the
\* overall-timeout test passes, else continue.
DiscoverReadTimeout ==
    /\ onvif.pc = "listening"
    /\ clock.now >= clock.readBy
    /\ NextIteration(onvif, OnvifTimeoutElapsed(clock.now, DiscoveryTimeout) \/ ctxDone)
    /\ UNCHANGED <<discoverFrame, ctxDone, observed>>

DiscoverNext ==
    \/ DiscoverCancel
    \/ DiscoverTick
    \/ \E dg \in OnvifDatagrams : DiscoverReceive(dg)
    \/ DiscoverReadTimeout

DiscoverSpec == DiscoverInit /\ [][DiscoverNext]_vars

(***************************************************************************)
(* Claims on DiscoverSpec                                                  *)
(***************************************************************************)
\* C5: with a context that is not cancelled and no datagram arriving,
\* Discover has returned once discovery_timeout has passed since the probe was
\* sent (at the latest one 1 s read poll later): it is no longer listening.
C5_DiscoverReturnsAfterTimeout ==
    (~ctxDone /\ onvif.seen = 0 /\ clock.now > DiscoveryTimeout + 1) => onvif.pc # "listening"

(***************************************************************************)
(* StampSpec: DiscoveredAt and LastSeen of the device of one IP.  The      *)
(* discovery tasks build their devices at the wall-clock instant of the    *)
(* observation, Detector.Scan merges them in whatever order the tasks      *)
(* finish, and the caller hands the returned device to the registry.       *)
(* The zero time.Time is instant 0; the clock starts at 1.                 *)
(***************************************************************************)
MaxStamp == 4
Sources == {"sweep", "onvif", "upnp"}

\* models.Device{IP: ..., DiscoveredAt: time.Now()}: LastSeen keeps its zero
\* value (scanHost, parseProbeMatch and parseSSDPResponse alike).
NewDevice(now) == [DiscoveredAt |-> now, LastSeen |-> 0]

\* Detector.mergeDevices, detector.go 153-157: DiscoveredAt of the existing
\* device is never written; LastSeen is set to the instant of the merge when
\* the new device was built later than the existing one.
mergeStamps(existing, new, now) ==
    IF new.DiscoveredAt > existing.DiscoveredAt
    THEN [existing EXCEPT !.LastSeen = now]
    ELSE existing

StampInit ==
    /\ MergeIdle
    /\ ScanIdle
    /\ PoolIdle
    /\ ClockIdle
    /\ ClientIdle
    /\ RegistryIdle
    /\ ProbeIdle
    /\ devicesMap = EmptyMap
    /\ stamp = [pc |-> "scanning", now |-> 1,
                built |-> [s \in Sources |-> <<>>],   \* the device each task built
                merged |-> <<>>,                      \* tasks in the order they merged
                device |-> <<>>,                      \* devicesMap[ip], if present
                result |-> <<>>,                      \* the device Scan returned
                reg |-> <<>>]                         \* DeviceRegistry.devices[ip]

stampFrame ==
    <<devicesMap, mergeVars, scanVars, poolVars, clock, client, registry, probe>>

\* Wall-clock time passes.
StampTick ==
    /\ stamp.pc # "idle"
    /\ stamp.now < MaxStamp
    /\ stamp' = [stamp EXCEPT !.now = @ + 1]
    /\ UNCHANGED stampFrame

\* A discovery task observes the host and builds its device.
Build(s) ==
    /\ stamp.pc = "scanning"
    /\ stamp.built[s] = <<>>
    /\ stamp' = [stamp EXCEPT !.built[s] = <<NewDevice(stamp.now)>>]
    /\ UNCHANGED stampFrame

\* The task hands its device to mergeDevice.
StampMerge(s) ==
    /\ stamp.pc = "scanning"
    /\ stamp.built[s] # <<>>
    /\ s \notin Range(stamp.merged)
    /\ stamp' = [stamp EXCEPT
                    !.merged = Append(@, s),
                    !.device = IF @ = <<>>
                               THEN stamp.built[s]
                               ELSE <<mergeStamps(@[1], stamp.built[s][1], stamp.now)>>]
    /\ UNCHANGED stampFrame

\* wg.Wait() is over: every task that built a device has merged it, and
\* Detector.Scan returns the devices of devicesMap.
StampReturn ==
    /\ stamp.pc = "scanning"
    /\ stamp.device # <<>>
    /\ \A s \in Sources : stamp.built[s] # <<>> => s \in Range(stamp.merged)
    /\ stamp' = [stamp EXCEPT !.pc = "returned", !.result = stamp.device]
    /\ UNCHANGED stampFrame

\* DeviceRegistry.AddDevice(device) with the returned device.  The registry
\* keeps the pointer it is given, so the stamps written to a new entry are
\* written to the caller's device as well.
AddDevice ==
    /\ stamp.pc = "returned"
    /\ LET now == stamp.now
       IN  IF stamp.reg # <<>>
           THEN stamp' = [stamp EXCEPT !.reg[1].LastSeen = now]
           ELSE stamp' = [stamp EXCEPT
                             !.reg = <<[DiscoveredAt |-> now, LastSeen |-> now]>>,
                             !.result = <<[DiscoveredAt |-> now, LastSeen |-> now]>>]
    /\ UNCHANGED stampFrame

\* DeviceRegistry.UpdateDeviceState(ip, updateFunc) with an updateFunc that
\* leaves the stamps alone.
UpdateDeviceState ==
    /\ stamp.pc = "returned"
    /\ stamp.reg # <<>>
    /\ stamp' = [stamp EXCEPT !.reg[1].LastSeen = stamp.now]
    /\ UNCHANGED stampFrame

StampNext ==
    \/ StampTick
    \/ \E s \in Sources : Build(s)
    \/ \E s \in Sources : StampMerge(s)
    \/ StampReturn
    \/ AddDevice
    \/ UpdateDeviceState

StampSpec == StampInit /\ [][StampNext]_vars

\* The observation instants of the contributions merged so far.
MergedStamps == {stamp.built[s][1].DiscoveredAt : s \in Range(stamp.merged)}

MinOf(S) == CHOOSE x \in S : \A y \in S : x <= y

MaxOf(S) == CHOOSE x \in S : \A y \in S : y <= x

\* C11: after merging any sequence of contributions for one IP, the merged
\* device's discovered_at is the minimum discovered_at of the contributions
\* and its last_seen is the maximum observation time of the contributions.
C11_StampsAreMinAndMax ==
    (stamp.pc # "idle" /\ stamp.device # <<>>) =>
        /\ stamp.device[1].DiscoveredAt = MinOf(MergedStamps)
        /\ stamp.device[1].LastSeen = MaxOf(MergedStamps)

\* C12: every device returned by Detector.Scan and every device stored in
\* the registry has discovered_at <= last_seen.
C12_DiscoveredBeforeLastSeen ==
    stamp.pc # "idle" =>
        \A d \in Range(stamp.result) \cup Range(stamp.reg) :
            d.DiscoveredAt <= d.LastSeen

(***************************************************************************)
(* Claims on FairSweepSpec                                                 *)
(***************************************************************************)
\* C15: once the caller's context is cancelled during a scan, Detector.Scan
\* eventually returns.  Scan waits for task 1, which waits for
\* scanPortsParallel, so the sweep must return after the cancellation.
C15_ScanReturnsAfterCancel == ctxDone ~> (sp.pc = "returned")

(***************************************************************************)
(* RtspSpec: rtsp.CheckStream driving one rtsp.Client against a camera.    *)
(* A header value is kept as its parsed content; the hash and the encoding *)
(* are injective tags, so two digests agree exactly when their inputs do.  *)
(***************************************************************************)
md5Hash(data) == <<"md5", data>>

base64(data) == <<"base64", data>>

\* A WWW-Authenticate value: the scheme followed by comma-separated
\* key="value" parameters.
Challenge(scheme, params) == [Scheme |-> scheme, Params |-> params]

NoChallenge == Challenge("", <<>>)

Challenges ==
    { NoChallenge,
      Challenge("Basic", << <<"realm", "cam">> >>),
      Challenge("Digest", << <<"realm", "cam">>, <<"nonce", "N">> >>),
      Challenge("Digest", << <<"nonce", "N">>, <<"realm", "cam">> >>),
      Challenge("Digest", << <<"qop", "auth">>, <<"realm", "cam">>, <<"nonce", "N">> >>) }

\* The value of key in params, "" when absent (the last occurrence wins).
ParamOf(params, key) ==
    LET hits == {i \in DOMAIN params : params[i][1] = key}
    IN  IF hits = {} THEN "" ELSE params[CHOOSE i \in hits : \A j \in hits : j <= i][2]

\* Client.parseAuthHeader: the fields authMethod, realm and nonce after the
\* call.  Basic finds realm= anywhere in the header.  Digest splits the
\* header at the commas and tests each trimmed part for the prefixes realm=
\* and nonce=; the first part still starts with the word Digest, so the
\* first parameter is never recognised.
parseAuthHeader(c, header) ==
    CASE header.Scheme = "Basic" ->
            [c EXCEPT !.authMethod = "Basic",
                      !.realm = IF ParamOf(header.Params, "realm") # ""
                                THEN ParamOf(header.Params, "realm") ELSE @]
      [] header.Scheme = "Digest" ->
            LET rest == SubSeq(header.Params, 2, Len(header.Params))
            IN  [c EXCEPT !.authMethod = "Digest",
                          !.realm = IF \E i \in DOMAIN rest : rest[i][1] = "realm"
                                    THEN ParamOf(rest, "realm") ELSE @,
                          !.nonce = IF \E i \in DOMAIN rest : rest[i][1] = "nonce"
                                    THEN ParamOf(rest, "nonce") ELSE @]
      [] OTHER -> c

\* An Authorization value for the given scheme (RFC 2617 without qop).
Authorization(scheme, username, password, realm, nonce, method, path) ==
    IF scheme = "Basic"
    THEN [Scheme |-> "Basic", Username |-> "", Realm |-> "", Nonce |-> "", Uri |-> "",
          Response |-> base64(<<username, password>>)]
    ELSE [Scheme |-> "Digest", Username |-> username, Realm |-> realm, Nonce |-> nonce,
          Uri |-> path,
          Response |-> md5Hash(<<md5Hash(<<username, realm, password>>), nonce,
                                 md5Hash(<<method, path>>)>>)]

\* Client.buildAuthHeader
buildAuthHeader(c, method, path) ==
    Authorization(c.authMethod, c.username, c.password, c.realm, c.nonce, method, path)

\* The request Client.sendRequest writes: CSeq is incremented first, and the
\* Authorization header is added when authMethod, username and password are
\* all non-empty.
RequestOf(c, method, path) ==
    [Method |-> method, Path |-> path, CSeq |-> c.cseq + 1,
     Authorization |-> IF c.authMethod # "" /\ c.username # "" /\ c.password # ""
                       THEN <<buildAuthHeader(c, method, path)>>
                       ELSE <<>>]

\* The camera: the methods it protects, the challenge it sends with a 401 and
\* the account it accepts.
Cameras ==
    [Protects : SUBSET {"OPTIONS", "DESCRIBE"}, Challenge : Challenges,
     Username : {"admin"}, Password : {"secret", ""}]

\* The response the camera gives to a request, as readResponse returns it.
Answer(cam, req) ==
    LET expected == Authorization(cam.Challenge.Scheme, cam.Username, cam.Password,
                                  ParamOf(cam.Challenge.Params, "realm"),
                                  ParamOf(cam.Challenge.Params, "nonce"),
                                  req.Method, req.Path)
        authorized == req.Authorization = <<expected>>
    IN  IF req.Method \in cam.Protects /\ ~authorized
        THEN [StatusCode |-> 401, WWWAuthenticate |-> cam.Challenge, Body |-> ""]
        ELSE [StatusCode |-> 200, WWWAuthenticate |-> NoChallenge,
              Body |-> IF req.Method = "DESCRIBE" THEN "v=0 m=video" ELSE ""]

DescribePath == "/stream1"

\* NewClient: a connected client with cseq = 1.
NewClient(username, password) ==
    [cseq |-> 1, authMethod |-> "", realm |-> "", nonce |-> "",
     username |-> username, password |-> password]

RtspInit ==
    /\ MergeIdle
    /\ ScanIdle
    /\ PoolIdle
    /\ ClockIdle
    /\ StampIdle
    /\ RegistryIdle
    /\ ProbeIdle
    /\ devicesMap = EmptyMap
    /\ \E cam \in Cameras : \E username \in {"", "admin"} :
       \E password \in {"", "secret", "guess"} :
          client = [pc |-> "connected", c |-> NewClient(username, password), camera |-> cam,
                    sent |-> <<>>,        \* the requests written to the connection
                    answers |-> <<>>,     \* the responses read, <<>> where the read failed
                    result |-> "pending"]

rtspFrame == <<devicesMap, mergeVars, scanVars, poolVars, clock, stamp, registry, probe>>

\* Client.sendRequest followed by what its caller does with an I/O error: the
\* state of CheckStream after one request was written and the response read
\* (ok) or the write or read failed (~ok), in which case CheckStream returns
\* the error.
sendRequest(method, path, ok, next) ==
    LET req == RequestOf(client.c, method, path)
    IN  [client EXCEPT
            !.c.cseq = @ + 1,
            !.sent = Append(@, req),
            !.answers = Append(@, IF ok THEN <<Answer(client.camera, req)>> ELSE <<>>),
            !.pc = IF ok THEN next ELSE "returned",
            !.result = IF ok THEN @ ELSE "error"]

LastAnswer(cl) == cl.answers[Len(cl.answers)][1]

\* CheckStream: client.Options(); a status other than 200 ends the check.
Options(ok) ==
    /\ client.pc = "connected"
    /\ LET after == sendRequest("OPTIONS", "*", ok, "optionsAcked")
       IN  client' = IF ok /\ LastAnswer(after).StatusCode # 200
                     THEN [after EXCEPT !.pc = "returned", !.result = "error"]
                     ELSE after
    /\ UNCHANGED rtspFrame

\* Client.Describe, first request: on 401 with a WWW-Authenticate header the
\* header is parsed and the request is sent again; any other response is
\* returned to CheckStream.
Describe(ok) ==
    /\ client.pc = "optionsAcked"
    /\ LET after == sendRequest("DESCRIBE", DescribePath, ok, "described")
       IN  client' = IF ok /\ LastAnswer(after).StatusCode = 401
                           /\ LastAnswer(after).WWWAuthenticate # NoChallenge
                     THEN [after EXCEPT
                             !.pc = "retrying",
                             !.c = parseAuthHeader(@, LastAnswer(after).WWWAuthenticate)]
                     ELSE after
    /\ UNCHANGED rtspFrame

\* Client.Describe, the repeated request; its response is returned whatever
\* its status.
DescribeRetry(ok) ==
    /\ client.pc = "retrying"
    /\ client' = sendRequest("DESCRIBE", DescribePath, ok, "described")
    /\ UNCHANGED rtspFrame

\* CheckStream after Describe returned a response: status 200 with a body
\* that parses as SDP is a successful check.
CheckStreamReturn ==
    /\ client.pc = "described"
    /\ client' = [client EXCEPT
                     !.pc = "returned",
                     !.result = IF LastAnswer(client).StatusCode = 200
                                   /\ LastAnswer(client).Body # ""
                                THEN "ok" ELSE "error"]
    /\ UNCHANGED rtspFrame

RtspNext ==
    \/ \E ok \in BOOLEAN : Options(ok)
    \/ \E ok \in BOOLEAN : Describe(ok)
    \/ \E ok \in BOOLEAN : DescribeRetry(ok)
    \/ CheckStreamReturn

RtspSpec == RtspInit /\ [][RtspNext]_vars

(***************************************************************************)
(* Claims on RtspSpec                                                      *)
(***************************************************************************)
\* C16: the CSeq values of the requests sent over one client connection
\* start at 1 and grow by exactly one per request sent, a request re-sent
\* after a 401 included.
C16_CSeqStartsAtOne ==
    client.pc # "idle" => \A k \in DOMAIN client.sent : client.sent[k].CSeq = k

\* The DESCRIBE requests sent so far, by position.
Describes == {k \in DOMAIN client.sent : client.sent[k].Method = "DESCRIBE"}

\* The first DESCRIBE was answered 401 with a challenge.
DescribeChallenged ==
    \E k \in Describes :
        /\ \A j \in Describes : k <= j
        /\ client.answers[k] # <<>>
        /\ client.answers[k][1].StatusCode = 401
        /\ client.answers[k][1].WWWAuthenticate # NoChallenge

\* C17: the first request carries no Authorization header; when DESCRIBE is
\* answered 401 with a challenge, the request is re-sent exactly once with
\* an Authorization header built from the challenge (its scheme, realm and
\* nonce) and the client's credentials; when the retry is answered 401 too,
\* nothing more is sent and the check fails.
C17_AuthRetryOnce ==
    client.pc # "idle" =>
        /\ client.sent # <<>> => client.sent[1].Authorization = <<>>
        /\ Cardinality(Describes) <= 2
        /\ (client.pc = "returned" /\ DescribeChallenged) =>
              /\ Cardinality(Describes) = 2
              /\ LET retry == client.sent[Len(client.sent)]
                     challenge == client.camera.Challenge
                 IN  /\ retry.Method = "DESCRIBE"
                     /\ retry.Authorization =
                           << Authorization(challenge.Scheme, client.c.username,
                                            client.c.password,
                                            ParamOf(challenge.Params, "realm"),
                                            ParamOf(challenge.Params, "nonce"),
                                            "DESCRIBE", DescribePath) >>
                     /\ (client.answers[Len(client.sent)] # <<>>
                         /\ LastAnswer(client).StatusCode = 401) => client.result = "error"

\* No write or read on the connection failed.
NoIOError == \A k \in DOMAIN client.answers : client.answers[k] # <<>>

\* C18: for a camera that answers an unauthenticated request with 401 and a
\* Digest or Basic challenge, CheckStream run with the correct credentials
\* succeeds, whichever request the camera protects.
C18_AuthenticatedCheckSucceeds ==
    (/\ client.pc = "returned"
     /\ NoIOError
     /\ client.camera.Protects # {}
     /\ client.camera.Challenge # NoChallenge
     /\ client.c.username = client.camera.Username
     /\ client.c.password = client.camera.Password) => client.result = "ok"

(***************************************************************************)
(* CacheSpec: registry.DeviceRegistry and its Cache.  Every method runs    *)
(* under r.mu or r.cache.mu from its first to its last statement, so each  *)
(* is one step.  The zero time.Time is instant 0; the clock starts at 1.   *)
(***************************************************************************)
MaxNow == 4
MaxTTL == 2
MaxSaves == 2

\* The device lists handed to SaveToCache by scan number gen: the devices of
\* one scan result are distinct objects with distinct IPs.
ScanResults(gen) ==
    { <<>>,
      << [IP |-> IP1, Gen |-> gen] >>,
      << [IP |-> IP1, Gen |-> gen], [IP |-> IP2, Gen |-> gen] >> }

\* Cache fields after SaveToCache(devices) at instant now.
SaveToCacheAt(cache, devices, now) ==
    [cache EXCEPT
        !.devices = [ip \in {devices[k].IP : k \in DOMAIN devices} |->
                        [Device |-> CHOOSE d \in Range(devices) :
                                       /\ d.IP = ip
                                       /\ \E k \in DOMAIN devices :
                                             /\ devices[k] = d
                                             /\ \A j \in DOMAIN devices :
                                                   devices[j].IP = ip => j <= k,
                         ExpiresAt |-> now + cache.defaultTTL]],
        !.lastScan = now,
        !.scanResults = devices]

\* Mutant: the whole-cache expiry test and the per-device test are skipped.
GetFromCacheAtNoExpiry(cache, now) ==
    IF cache.lastScan = 0
    THEN {[found |-> FALSE, devices |-> <<>>]}
    ELSE LET valid == DOMAIN cache.devices
         IN  IF valid = {}
             THEN {[found |-> FALSE, devices |-> <<>>]}
             ELSE {[found |-> TRUE, devices |-> [k \in DOMAIN order |-> cache.devices[order[k]].Device]]
                      : order \in Perms(valid)}

\* The results GetFromCache can return at instant now (the valid devices in
\* one of the orders of a range over the map).
GetFromCacheAt(cache, now) ==
    IF cache.lastScan = 0 \/ now > cache.lastScan + cache.defaultTTL
    THEN {[found |-> FALSE, devices |-> <<>>]}
    ELSE LET valid == {ip \in DOMAIN cache.devices : now < cache.devices[ip].ExpiresAt}
         IN  IF valid = {}
             THEN {[found |-> FALSE, devices |-> <<>>]}
             ELSE {[found |-> TRUE, devices |-> [k \in DOMAIN order |-> cache.devices[order[k]].Device]]
                      : order \in Perms(valid)}

CacheInit ==
    /\ MergeIdle
    /\ ScanIdle
    /\ PoolIdle
    /\ ClockIdle
    /\ StampIdle
    /\ ClientIdle
    /\ ProbeIdle
    /\ devicesMap = EmptyMap
    /\ \E ttl \in 0..MaxTTL :
          registry = [pc |-> "run", now |-> 1,
                      devices |-> {},                 \* keys of DeviceRegistry.devices
                      cache |-> [devices |-> EmptyMap, defaultTTL |-> ttl, lastScan |-> 0,
                                 scanResults |-> <<>>],
                      saves |-> 0,                    \* SaveToCache calls so far
                      saved |-> <<>>,                 \* the list given to the last SaveToCache
                      savedAt |-> 0,                  \* the instant of the last SaveToCache
                      cleared |-> FALSE,              \* ClearCache ran after the last SaveToCache
                      read |-> <<>>]                  \* the last GetFromCache: instant, result
                                                      \* and the history fields at that instant

cacheFrame == <<devicesMap, mergeVars, scanVars, poolVars, clock, stamp, client, probe>>

\* Wall-clock time passes.
CacheTick ==
    /\ registry.pc = "run"
    /\ registry.now < MaxNow
    /\ registry' = [registry EXCEPT !.now = @ + 1]
    /\ UNCHANGED cacheFrame

\* DeviceRegistry.SaveToCache(devices)
SaveToCache(devices) ==
    /\ registry.pc = "run"
    /\ registry.saves < MaxSaves
    /\ registry' = [registry EXCEPT
                       !.cache = SaveToCacheAt(@, devices, registry.now),
                       !.saves = @ + 1,
                       !.saved = devices,
                       !.savedAt = registry.now,
                       !.cleared = FALSE]
    /\ UNCHANGED cacheFrame

\* DeviceRegistry.GetFromCache()
GetFromCache ==
    /\ registry.pc = "run"
    /\ \E r \in GetFromCacheAt(registry.cache, registry.now) :
          registry' = [registry EXCEPT
                          !.read = <<[at |-> registry.now, found |-> r.found,
                                      devices |-> r.devices, saved |-> registry.saved,
                                      savedAt |-> registry.savedAt,
                                      cleared |-> registry.cleared]>>]
    /\ UNCHANGED cacheFrame

\* DeviceRegistry.ClearCache()
ClearCache ==
    /\ registry.pc = "run"
    /\ registry' = [registry EXCEPT
                       !.cache = [@ EXCEPT !.devices = EmptyMap, !.lastScan = 0,
                                           !.scanResults = <<>>],
                       !.cleared = TRUE]
    /\ UNCHANGED cacheFrame

\* DeviceRegistry.AddDevice(device): the device map only; the cache is not
\* touched.
RegistryAdd(ip) ==
    /\ registry.pc = "run"
    /\ registry' = [registry EXCEPT !.devices = @ \cup {ip}]
    /\ UNCHANGED cacheFrame

\* DeviceRegistry.RemoveDevice(ip)
RemoveDevice(ip) ==
    /\ registry.pc = "run"
    /\ registry' = [registry EXCEPT !.devices = @ \ {ip}]
    /\ UNCHANGED cacheFrame

\* DeviceRegistry.Clear()
Clear ==
    /\ registry.pc = "run"
    /\ registry' = [registry EXCEPT !.devices = {}]
    /\ UNCHANGED cacheFrame

CacheNext ==
    \/ CacheTick
    \/ \E devices \in ScanResults(registry.saves + 1) : SaveToCache(devices)
    \/ GetFromCache
    \/ ClearCache
    \/ \E ip \in IPs : RegistryAdd(ip)
    \/ \E ip \in IPs : RemoveDevice(ip)
    \/ Clear

CacheSpec == CacheInit /\ [][CacheNext]_vars

(***************************************************************************)
(* Claims on CacheSpec                                                     *)
(***************************************************************************)
\* C19: GetFromCache reports absent for every read made strictly after
\* last_scan + TTL, whatever registry operations were interleaved since the
\* last SaveToCache.
C19_AbsentAfterTTL ==
    (registry.pc = "run" /\ registry.read # <<>>) =>
        LET read == registry.read[1]
        IN  (read.savedAt > 0 /\ read.at > read.savedAt + registry.cache.defaultTTL) =>
                ~read.found

\* A non-empty snapshot was saved and not cleared, the registry map was
\* changed meanwhile, and a read after last_scan + TTL reported absent.
C19_Witness ==
    /\ registry.pc = "run"
    /\ registry.read # <<>>
    /\ registry.read[1].savedAt > 0
    /\ registry.read[1].saved # <<>>
    /\ ~registry.read[1].cleared
    /\ registry.devices # {}
    /\ registry.read[1].at > registry.read[1].savedAt + registry.cache.defaultTTL
    /\ ~registry.read[1].found

\* C20: after SaveToCache(S), every GetFromCache before the expiry instant
\* with no SaveToCache or ClearCache in between reports the snapshot present
\* and returns exactly the devices of S, and every GetFromCache after the
\* expiry instant reports it absent.
C20_AtomicSnapshot ==
    (registry.pc = "run" /\ registry.read # <<>>) =>
        LET read == registry.read[1]
            expiresAt == read.savedAt + registry.cache.defaultTTL
        IN  (read.savedAt > 0 /\ ~read.cleared) =>
               /\ read.at < expiresAt =>
                     /\ read.found
                     /\ Len(read.devices) = Len(read.saved)
                     /\ Range(read.devices) = Range(read.saved)
               /\ read.at > expiresAt => ~read.found

(***************************************************************************)
(* RegSpec: the device map of registry.DeviceRegistry under concurrent     *)
(* callers.  Methods exclude one another through r.mu.  GetDevice hands    *)
(* out the pointer stored in the map, so its caller reads the attributes   *)
(* after r.mu was released, unsynchronised with the field assignments a    *)
(* later AddDevice makes to the same object; these assignments are         *)
(* therefore steps of their own.                                           *)
(***************************************************************************)
AttrNames == <<"MAC", "Hostname", "Manufacturer", "Model">>

\* The devices handed to AddDevice, all for 10.0.0.5: a fully described
\* camera, a device known by protocol only, and a device without protocols.
RegDevices ==
    { [IP |-> IP1, MAC |-> "aa:01", Hostname |-> "cam1", Manufacturer |-> "Acme",
       Model |-> "X1", Protocols |-> <<Protocol("RTSP", 554)>>],
      [IP |-> IP1, MAC |-> "", Hostname |-> "", Manufacturer |-> "", Model |-> "",
       Protocols |-> <<Protocol("ONVIF", 80)>>],
      [IP |-> IP1, MAC |-> "bb:02", Hostname |-> "cam2", Manufacturer |-> "", Model |-> "",
       Protocols |-> <<>>] }

AttrsOf(d) == [k \in DOMAIN AttrNames |-> d[AttrNames[k]]]

NoReader == [pc |-> "none", ip |-> "", found |-> FALSE, seen |-> <<>>, allowed |-> {},
             afterAdd |-> FALSE]

RegInit ==
    /\ MergeIdle
    /\ ScanIdle
    /\ PoolIdle
    /\ ClockIdle
    /\ StampIdle
    /\ ClientIdle
    /\ ProbeIdle
    /\ devicesMap = EmptyMap
    /\ registry = [pc |-> "reg",
                   devices |-> EmptyMap,   \* DeviceRegistry.devices
                   writer |-> <<>>,        \* AddDevice holding r.mu in its update branch:
                                           \* its argument and the next assignment
                   ever |-> {},            \* IPs of entries for which a protocol was recorded
                   live |-> {},            \* IPs added by a completed AddDevice and not
                                           \* removed since
                   lastOp |-> "NewDeviceRegistry",
                   reader |-> NoReader]    \* a caller of GetDevice and what it has read
                                           \* through the returned pointer

regFrame == <<devicesMap, mergeVars, scanVars, poolVars, clock, stamp, client, probe>>

\* A write to the key of the reader's pointer began: its attributes become
\* an admissible read.
ReaderSees(reader, d) ==
    IF reader.pc = "reading" /\ reader.ip = d.IP
    THEN [reader EXCEPT !.allowed = @ \cup {AttrsOf(d)}]
    ELSE reader

\* A RemoveDevice or Clear took the reader's key away.
ReaderLoses(reader, ips) ==
    IF reader.pc = "reading" /\ reader.ip \in ips
    THEN [reader EXCEPT !.afterAdd = FALSE]
    ELSE reader

\* DeviceRegistry.AddDevice(device): r.mu.Lock(), then either the new device
\* is stored (and the method returns) or the update branch starts.
RegAddDevice(d) ==
    /\ registry.pc = "reg"
    /\ registry.writer = <<>>
    /\ IF d.IP \in DOMAIN registry.devices
       THEN registry' = [registry EXCEPT
                            !.writer = <<[device |-> d, step |-> 1]>>,
                            !.reader = ReaderSees(@, d),
                            !.lastOp = "AddDevice"]
       ELSE registry' = [registry EXCEPT
                            !.devices = [ip \in DOMAIN @ \cup {d.IP} |->
                                            IF ip = d.IP
                                            THEN [MAC |-> d.MAC, Hostname |-> d.Hostname,
                                                  Manufacturer |-> d.Manufacturer,
                                                  Model |-> d.Model, Protocols |-> d.Protocols]
                                            ELSE @[ip]],
                            !.ever = IF d.Protocols # <<>> THEN @ \cup {d.IP} ELSE @,
                            !.live = @ \cup {d.IP},
                            !.lastOp = "AddDevice"]
    /\ UNCHANGED regFrame

\* AddDevice, update branch: the next of existing.MAC = device.MAC,
\* existing.Hostname = ..., existing.Manufacturer = ..., existing.Model = ...,
\* existing.Protocols = ...; after the last one r.mu is released.
RegAddDeviceAssign ==
    /\ registry.pc = "reg"
    /\ registry.writer # <<>>
    /\ LET d == registry.writer[1].device
           step == registry.writer[1].step
       IN  IF step <= Len(AttrNames)
           THEN registry' = [registry EXCEPT
                                !.devices[d.IP][AttrNames[step]] = d[AttrNames[step]],
                                !.writer[1].step = step + 1,
                                !.lastOp = "AddDevice"]
           ELSE registry' = [registry EXCEPT
                                !.devices[d.IP].Protocols = d.Protocols,
                                !.writer = <<>>,
                                !.ever = IF d.Protocols # <<>> THEN @ \cup {d.IP} ELSE @,
                                !.live = @ \cup {d.IP},
                                !.lastOp = "AddDevice"]
    /\ UNCHANGED regFrame

\* DeviceRegistry.GetDevice(ip): under r.mu.RLock() the pointer is looked up
\* and returned.
GetDevice(ip) ==
    /\ registry.pc = "reg"
    /\ registry.writer = <<>>
    /\ registry.reader.pc # "reading"
    /\ LET found == ip \in DOMAIN registry.devices
       IN  registry' = [registry EXCEPT
                           !.reader = [pc |-> IF found THEN "reading" ELSE "done",
                                       ip |-> ip, found |-> found, seen |-> <<>>,
                                       allowed |-> IF found
                                                   THEN {AttrsOf(registry.devices[ip])}
                                                   ELSE {},
                                       afterAdd |-> ip \in registry.live],
                           !.lastOp = "GetDevice"]
    /\ UNCHANGED regFrame

\* The caller of GetDevice reads the next attribute through the pointer; no
\* lock is held.
ReadAttribute ==
    /\ registry.pc = "reg"
    /\ registry.reader.pc = "reading"
    /\ LET r == registry.reader
           k == Len(r.seen) + 1
       IN  IF r.ip \in DOMAIN registry.devices
           THEN registry' = [registry EXCEPT
                                !.reader.seen = Append(@, registry.devices[r.ip][AttrNames[k]]),
                                !.reader.pc = IF k = Len(AttrNames) THEN "done" ELSE @]
           ELSE registry' = [registry EXCEPT !.reader.pc = "done"]
    /\ UNCHANGED regFrame

\* DeviceRegistry.RemoveDevice(ip)
RegRemoveDevice(ip) ==
    /\ registry.pc = "reg"
    /\ registry.writer = <<>>
    /\ registry' = [registry EXCEPT
                       !.devices = [k \in DOMAIN @ \ {ip} |-> @[k]],
                       !.ever = @ \ {ip},
                       !.live = @ \ {ip},
                       !.reader = ReaderLoses(@, {ip}),
                       !.lastOp = "RemoveDevice"]
    /\ UNCHANGED regFrame

\* DeviceRegistry.Clear()
RegClear ==
    /\ registry.pc = "reg"
    /\ registry.writer = <<>>
    /\ registry' = [registry EXCEPT
                       !.devices = EmptyMap,
                       !.ever = {},
                       !.live = {},
                       !.reader = ReaderLoses(@, DOMAIN registry.devices),
                       !.lastOp = "Clear"]
    /\ UNCHANGED regFrame

\* DeviceRegistry.UpdateDeviceState(ip, updateFunc) with an updateFunc that
\* records one more protocol; a missing key returns false.
RegUpdateDeviceState(ip) ==
    /\ registry.pc = "reg"
    /\ registry.writer = <<>>
    /\ IF ip \in DOMAIN registry.devices
       THEN registry' = [registry EXCEPT
                            !.devices[ip].Protocols =
                                IF Protocol("HTTP", 80) \in Range(@)
                                THEN @ ELSE Append(@, Protocol("HTTP", 80)),
                            !.ever = @ \cup {ip},
                            !.lastOp = "UpdateDeviceState"]
       ELSE registry' = [registry EXCEPT !.lastOp = "UpdateDeviceState"]
    /\ UNCHANGED regFrame

RegNext ==
    \/ \E d \in RegDevices : RegAddDevice(d)
    \/ RegAddDeviceAssign
    \/ GetDevice(IP1)
    \/ ReadAttribute
    \/ RegRemoveDevice(IP1)
    \/ RegClear
    \/ RegUpdateDeviceState(IP1)

RegSpec == RegInit /\ [][RegNext]_vars

(***************************************************************************)
(* Claims on RegSpec                                                       *)
(***************************************************************************)
\* C21: after any sequence of registry operations every entry of the
\* registry is one for which at least one Protocol has been recorded:
\* AddDevice never leaves an entry whose protocol list has always been empty.
C21_EntriesHaveAProtocol ==
    (registry.pc = "reg" /\ registry.writer = <<>>) =>
        \A ip \in DOMAIN registry.devices : ip \in registry.ever

\* C22: an AddDevice for an IP already in the registry never replaces a
\* non-empty MAC, hostname, manufacturer or model with an empty value, and
\* an entry leaves the registry only through RemoveDevice or Clear.
C22_UpdatesAreMonotonic ==
    [][registry.pc = "reg" =>
          /\ \A ip \in DOMAIN registry.devices :
                IF ip \in DOMAIN registry'.devices
                THEN \A k \in DOMAIN AttrNames :
                        registry.devices[ip][AttrNames[k]] # "" =>
                            registry'.devices[ip][AttrNames[k]] # ""
                ELSE registry'.lastOp \in {"RemoveDevice", "Clear"}]_vars

\* C23: once AddDevice(d) has returned, a GetDevice(d.IP) that starts
\* afterwards returns found = true, and the attributes its caller gets are
\* those written by one AddDevice for that IP (the latest completed one, or
\* one that ran since), unless a RemoveDevice or Clear intervened.
C23_ReadAfterWrite ==
    (registry.pc = "reg" /\ registry.reader.pc = "done" /\ registry.reader.afterAdd) =>
        /\ registry.reader.found
        /\ registry.reader.seen \in registry.reader.allowed

(***************************************************************************)
(* TagSpec: the Protocol each discovery source records for one input: a    *)
(* configured port the sweep connected to, the first XAddrs URL of a       *)
(* ProbeMatch, the LOCATION URL of an SSDP response.                       *)
(***************************************************************************)
\* The numbers a port list entry or the port text of a URL can denote.
PortValues == {-1, 0, 1, 80, 554, 1935, 8080, 8554, 9000, 65535, 65536, 70000}

\* http://host[:port]/path and https://host[:port]/path with an IP literal
\* as host; Port is the number the decimal text after the colon denotes.
URLs ==
    [Scheme : {"http", "https"}, Host : {IP1}, HasPort : {TRUE}, Port : PortValues]
        \cup [Scheme : {"http", "https"}, Host : {IP1}, HasPort : {FALSE}, Port : {0}]

\* extractPortFromURL of both scanners: the scheme prefix and the path are
\* cut off; with exactly one colon left the text after it is scanned with
\* %d and returned as it is; otherwise 80 (the https test is made on the
\* string whose prefix was already trimmed, so it never yields 443).
extractPortFromURL(url) == IF url.HasPort THEN url.Port ELSE 80

\* net.Dialer.DialContext("tcp", "ip:port") can connect only to a port
\* number TCP has.
CanConnect(port) == port \in 1..65535

ProtocolTags ==
    {"RTSP", "RTMP", "HLS", "MPEG-DASH", "MJPEG", "WebRTC", "ONVIF", "UPnP", "HTTP", "UNKNOWN"}

TagInit ==
    /\ MergeIdle
    /\ ScanIdle
    /\ PoolIdle
    /\ ClockIdle
    /\ StampIdle
    /\ ClientIdle
    /\ RegistryIdle
    /\ devicesMap = EmptyMap
    /\ \/ \E port \in PortValues : \E open \in BOOLEAN :
             probe = [pc |-> "input", source |-> "sweep",
                      input |-> [Port |-> port, Open |-> open], out |-> <<>>]
       \/ \E url \in URLs :
             probe = [pc |-> "input", source |-> "onvif", input |-> <<url>>, out |-> <<>>]
       \/ \E location \in {<<>>} \cup {<<url>> : url \in URLs} :
             probe = [pc |-> "input", source |-> "upnp", input |-> location, out |-> <<>>]

tagFrame == <<devicesMap, mergeVars, scanVars, poolVars, clock, stamp, client, registry>>

\* scanHost, one port goroutine: isPortOpen, then detectProtocol.
SweepProbe ==
    /\ probe.pc = "input"
    /\ probe.source = "sweep"
    /\ probe' = [probe EXCEPT
                    !.pc = "done",
                    !.out = IF probe.input.Open /\ CanConnect(probe.input.Port)
                            THEN <<detectProtocol(IP1, probe.input.Port)>>
                            ELSE <<>>]
    /\ UNCHANGED tagFrame

\* ONVIFScanner.parseProbeMatch on a ProbeMatch whose first XAddrs is the URL.
OnvifParse ==
    /\ probe.pc = "input"
    /\ probe.source = "onvif"
    /\ LET url == probe.input[1]
           device == parseProbeMatch([Valid |-> TRUE, SourceIP |-> IP1, XAddrIP |-> url.Host,
                                      XAddrPort |-> extractPortFromURL(url),
                                      Hardware |-> "", Name |-> ""])
       IN  probe' = [probe EXCEPT !.pc = "done", !.out = device.Protocols]
    /\ UNCHANGED tagFrame

\* UPnPScanner.parseSSDPResponse on a response with or without LOCATION.
UpnpParse ==
    /\ probe.pc = "input"
    /\ probe.source = "upnp"
    /\ LET device ==
              IF probe.input = <<>>
              THEN parseSSDPResponse([Valid |-> TRUE, SourceIP |-> IP1, LocationIP |-> "",
                                      LocationPort |-> 0, ServerVendor |-> ""])
              ELSE parseSSDPResponse([Valid |-> TRUE, SourceIP |-> IP1,
                                      LocationIP |-> probe.input[1].Host,
                                      LocationPort |-> extractPortFromURL(probe.input[1]),
                                      ServerVendor |-> ""])
       IN  probe' = [probe EXCEPT !.pc = "done", !.out = device.Protocols]
    /\ UNCHANGED tagFrame

TagNext == SweepProbe \/ OnvifParse \/ UpnpParse

TagSpec == TagInit /\ [][TagNext]_vars

\* C24: every Protocol recorded by a scan has a port in 1..65535 and a tag
\* of the closed set, for every configured port and every XAddrs / LOCATION
\* value received.
C24_PortAndTagInRange ==
    (probe.pc = "done" /\ probe.source \in {"sweep", "onvif", "upnp"}) =>
        \A k \in DOMAIN probe.out :
            /\ probe.out[k].Port \in 1..65535
            /\ probe.out[k].Type \in ProtocolTags

(***************************************************************************)
(* HostSpec: utils.GetSubnetHosts on one CIDR.  An address is a sequence   *)
(* of AddrLen bytes of ByteBits bits (net.IP is 4 bytes of 8 bits); the    *)
(* loop of GetSubnetHosts is taken one iteration at a time.                *)
(***************************************************************************)
ByteBits == 3
AddrLen == 2

ByteMod == 2 ^ ByteBits
AddrBits == AddrLen * ByteBits
Addresses == [1..AddrLen -> 0..(ByteMod - 1)]

\* net.ParseCIDR accepts a prefix length of 0..AddrBits on any address.
CIDRs == [Addr : Addresses, Bits : 0..AddrBits]

\* Number of host bits of byte i under a prefix of the given length.
HostBitsOf(bits, i) ==
    LET covered == bits - (i - 1) * ByteBits
    IN  IF covered <= 0 THEN ByteBits
        ELSE IF covered >= ByteBits THEN 0
        ELSE ByteBits - covered

\* net.IP.Mask with net.CIDRMask(bits): ip[i] & mask[i] clears the host bits.
Mask(ip, bits) == [i \in 1..AddrLen |-> ip[i] - (ip[i] % (2 ^ HostBitsOf(bits, i)))]

\* broadcast[i] = ip[i] | ^mask[i] sets the host bits of the masked address.
Broadcast(ip, bits) ==
    [i \in 1..AddrLen |-> ip[i] - (ip[i] % (2 ^ HostBitsOf(bits, i))) + (2 ^ HostBitsOf(bits, i)) - 1]

\* ParseSubnet: the *net.IPNet of net.ParseCIDR, whose IP is the masked address.
ParseSubnet(cidr) == [IP |-> Mask(cidr.Addr, cidr.Bits), Bits |-> cidr.Bits]

\* net.IPNet.Contains
Contains(ipNet, ip) == Mask(ip, ipNet.Bits) = ipNet.IP

\* incrementIP: from the last byte, ip[j]++ wraps at the byte width and the
\* carry goes on to the byte before while the incremented byte became 0.
RECURSIVE incrementFrom(_, _)
incrementFrom(ip, j) ==
    IF j = 0 THEN ip
    ELSE LET next == [ip EXCEPT ![j] = (ip[j] + 1) % ByteMod]
         IN  IF next[j] > 0 THEN next ELSE incrementFrom(next, j - 1)

incrementIP(ip) == incrementFrom(ip, AddrLen)

\* net.IP.String: the bytes in decimal, dots between them.
String(ip) == [k \in 1..(2 * AddrLen - 1) |-> IF k % 2 = 1 THEN ip[(k + 1) \div 2] ELSE "."]

HostInit ==
    /\ MergeIdle
    /\ ScanIdle
    /\ PoolIdle
    /\ ClockIdle
    /\ StampIdle
    /\ ClientIdle
    /\ RegistryIdle
    /\ devicesMap = EmptyMap
    /\ \E cidr \in CIDRs :
          LET ipNet == ParseSubnet(cidr)
          IN  probe = [pc |-> "loop", source |-> "hosts", ipNet |-> ipNet,
                       broadcast |-> Broadcast(Mask(ipNet.IP, ipNet.Bits), ipNet.Bits),
                       ip |-> Mask(Mask(ipNet.IP, ipNet.Bits), ipNet.Bits),
                       hosts |-> <<>>]

\* One iteration of the for loop: the condition holds, the body runs, then
\* the post statement.  Of a list that already holds as many hosts as there
\* are addresses the model keeps that prefix only; the loop goes on.
LoopIteration ==
    /\ probe.pc = "loop"
    /\ probe.source = "hosts"
    /\ Contains(probe.ipNet, probe.ip)
    /\ probe' = [probe EXCEPT
                    !.hosts = IF /\ probe.ip # probe.ipNet.IP
                                 /\ probe.ip # probe.broadcast
                                 /\ Len(probe.hosts) < 2 ^ AddrBits
                              THEN Append(probe.hosts, String(probe.ip))
                              ELSE probe.hosts,
                    !.ip = incrementIP(probe.ip)]
    /\ UNCHANGED tagFrame

\* The loop condition fails: return hosts, nil.
GetSubnetHostsReturn ==
    /\ probe.pc = "loop"
    /\ probe.source = "hosts"
    /\ ~Contains(probe.ipNet, probe.ip)
    /\ probe' = [probe EXCEPT !.pc = "returned"]
    /\ UNCHANGED tagFrame

HostNext == LoopIteration \/ GetSubnetHostsReturn

HostSpec == HostInit /\ [][HostNext]_vars

\* The number an address denotes, and the address a number denotes.
RECURSIVE NumberOf(_, _)
NumberOf(ip, n) == IF n = 0 THEN 0 ELSE NumberOf(ip, n - 1) * ByteMod + ip[n]

AddressOf(number) ==
    [i \in 1..AddrLen |-> (number \div (ByteMod ^ (AddrLen - i))) % ByteMod]

\* The ascending list of the addresses strictly between network and broadcast.
HostsBetween(ipNet) ==
    LET network == NumberOf(ipNet.IP, AddrLen)
        broadcast == NumberOf(Broadcast(ipNet.IP, ipNet.Bits), AddrLen)
    IN  [k \in 1..(IF broadcast - network > 1 THEN broadcast - network - 1 ELSE 0) |->
            String(AddressOf(network + k))]

\* C25: for every CIDR, GetSubnetHosts collects the addresses strictly
\* between the network and the broadcast address in ascending order and
\* nothing else, and the list it returns is exactly that list: 2^(width -
\* prefix) - 2 entries up to two host bits, none for the last two prefixes.
C25_HostsAreTheOpenInterval ==
    (probe.pc \in {"loop", "returned"} /\ probe.source = "hosts") =>
        LET expected == HostsBetween(probe.ipNet)
        IN  /\ Len(probe.hosts) <= Len(expected)
            /\ probe.hosts = SubSeq(expected, 1, Len(probe.hosts))
            /\ probe.pc = "returned" =>
                  /\ probe.hosts = expected
                  /\ Len(probe.hosts) =
                        IF probe.ipNet.Bits <= AddrBits - 2
                        THEN 2 ^ (AddrBits - probe.ipNet.Bits) - 2
                        ELSE 0

(***************************************************************************)
(* ArpSpec: NetworkScanner.ScanNetwork with its host selection.  The       *)
(* network state is fixed (OpenPorts); what varies is the outcome of the   *)
(* passive ARP capture.  No cancellation, every connect to an open port    *)
(* succeeds.                                                               *)
(***************************************************************************)
\* An address outside the scanned subnet.
OutsideIP == "10.0.1.9"

\* What getActiveHosts meets: GetNetworkInterfaces fails; no interface has
\* an address in the subnet; pcap.OpenLive fails; or the capture runs for
\* its 2 seconds and sees ARP replies from the addresses in Replies.
Captures ==
    [Status : {"interfaces_error", "no_interface", "pcap_error"}, Replies : {{}}]
        \cup [Status : {"captured"}, Replies : SUBSET (Range(SubnetHosts) \cup {OutsideIP})]

\* getHostsFromARP: the source addresses of the ARP replies seen that lie in
\* the subnet (an error when the interface cannot be opened).
getHostsFromARP(capture) == capture.Replies \cap Range(SubnetHosts)

\* getActiveHosts followed by the fallback of ScanNetwork: the hosts of the
\* ARP capture when there are any, all hosts of the subnet otherwise.
getActiveHosts(capture) ==
    IF capture.Status = "captured" /\ getHostsFromARP(capture) # {}
    THEN getHostsFromARP(capture)
    ELSE Range(SubnetHosts)

\* scanPortsParallel without cancellation or connect failures: one device
\* for every host with an open configured port, tagged by detectProtocol.
scanPortsParallel(ports, hosts) ==
    { [IP |-> ip,
       Protocols |-> {detectProtocol(ip, ports[i]) :
                         i \in {j \in DOMAIN ports : ports[j] \in OpenPorts(ip)}}] :
      ip \in {h \in hosts : \E i \in DOMAIN ports : ports[i] \in OpenPorts(h)} }

ArpInit ==
    /\ MergeIdle
    /\ ScanIdle
    /\ PoolIdle
    /\ ClockIdle
    /\ StampIdle
    /\ ClientIdle
    /\ RegistryIdle
    /\ devicesMap = EmptyMap
    /\ \E capture \in Captures : \E ports \in PortLists \cup {<<1935>>} :
          probe = [pc |-> "start", source |-> "arp", capture |-> capture, ports |-> ports,
                   hosts |-> {}, devices |-> {}]

\* ScanNetwork, step 1: hosts, err := ns.getActiveHosts(ctx, subnet) and the
\* fallback on err.
SelectHosts ==
    /\ probe.pc = "start"
    /\ probe.source = "arp"
    /\ probe' = [probe EXCEPT !.pc = "sweeping", !.hosts = getActiveHosts(probe.capture)]
    /\ UNCHANGED tagFrame

\* ScanNetwork, step 2: devices := ns.scanPortsParallel(ctx, hosts); return.
SweepSelected ==
    /\ probe.pc = "sweeping"
    /\ probe.source = "arp"
    /\ probe' = [probe EXCEPT !.pc = "returned",
                              !.devices = scanPortsParallel(probe.ports, probe.hosts)]
    /\ UNCHANGED tagFrame

ArpNext == SelectHosts \/ SweepSelected

ArpSpec == ArpInit /\ [][ArpNext]_vars

\* C26: whatever the ARP capture yields, the devices the sweep returns are
\* the devices a sweep of the full subnet returns in the same network state.
C26_ArpIsOnlyAnOptimisation ==
    (probe.pc = "returned" /\ probe.source = "arp") =>
        probe.devices = scanPortsParallel(probe.ports, Range(SubnetHosts))

(***************************************************************************)
(* RedirectSpec: the HTTP probes of one Detect call of the HLS, MPEG-DASH, *)
(* MJPEG or WebRTC detector against the target 10.0.0.5.  Every probe is a *)
(* client.Get on an http.Client that sets only Timeout.                    *)
(***************************************************************************)
\* The hosts a Location header can name: the target or another host.
RedirectHost == "203.0.113.9"
LocationHosts == {IP1, RedirectHost}

\* http.Client{Timeout: timeout} has no CheckRedirect, so Get applies the
\* default policy of net/http: a redirect is followed unless 10 requests
\* have been made.
MaxRedirects == 10

HttpDetectors == {"HLS", "MPEG-DASH", "MJPEG", "WebRTC"}

\* Number of client.Get calls one Detect makes when none matches: schemes
\* times paths of the manifest / stream loop and of the web interface loop
\* (WebRTC: web interface, JavaScript files, configuration paths).
NumGets(detector) ==
    CASE detector = "HLS" -> 2 * 7 + 2 * 5
      [] detector = "MPEG-DASH" -> 2 * 7 + 2 * 6
      [] detector = "MJPEG" -> 2 * 11 + 2 * 5
      [] OTHER -> 2 * 6 + 2 * 4 + 3

RedirectInit ==
    /\ MergeIdle
    /\ ScanIdle
    /\ PoolIdle
    /\ ClockIdle
    /\ StampIdle
    /\ ClientIdle
    /\ RegistryIdle
    /\ devicesMap = EmptyMap
    /\ \E detector \in HttpDetectors :
          probe = [pc |-> "probing", source |-> "http", detector |-> detector, idx |-> 1,
                   host |-> IP1, via |-> 0, contacted |-> {}, available |-> FALSE]

\* client.Get returned without a match (error, status other than 200, or a
\* body that fails the test): the loops go on to the next URL of the target;
\* after the last one Detect returns "not found".
NextURL(p) ==
    IF p.idx = NumGets(p.detector)
    THEN [p EXCEPT !.pc = "done"]
    ELSE [p EXCEPT !.idx = p.idx + 1, !.host = IP1, !.via = 0]

\* The request goes to the host of the current URL.
Requested(p) == [p EXCEPT !.contacted = p.contacted \cup {p.host}, !.via = p.via + 1]

\* The server answers 3xx with a Location on host h and the client follows.
HttpRedirect(h) ==
    /\ probe.pc = "probing"
    /\ probe.source = "http"
    /\ Requested(probe).via < MaxRedirects
    /\ probe' = [Requested(probe) EXCEPT !.host = h]
    /\ UNCHANGED tagFrame

\* The server answers 3xx to the tenth request: Get fails.
HttpRedirectStopped ==
    /\ probe.pc = "probing"
    /\ probe.source = "http"
    /\ ~(Requested(probe).via < MaxRedirects)
    /\ probe' = NextURL(Requested(probe))
    /\ UNCHANGED tagFrame

\* The answer is 200 and passes the detector's test: Detect returns
\* Available = true.
HttpMatch ==
    /\ probe.pc = "probing"
    /\ probe.source = "http"
    /\ probe' = [Requested(probe) EXCEPT !.pc = "done", !.available = TRUE]
    /\ UNCHANGED tagFrame

\* The request fails or the answer does not pass the test.
HttpNoMatch ==
    /\ probe.pc = "probing"
    /\ probe.source = "http"
    /\ probe' = NextURL(Requested(probe))
    /\ UNCHANGED tagFrame

RedirectNext ==
    \/ \E h \in LocationHosts : HttpRedirect(h)
    \/ HttpRedirectStopped
    \/ HttpMatch
    \/ HttpNoMatch

RedirectSpec == RedirectInit /\ [][RedirectNext]_vars

\* C27: no request of an HLS, MPEG-DASH, MJPEG or WebRTC probe goes to a
\* host other than the target.
C27_ProbesStayOnTarget ==
    (probe.pc \in {"probing", "done"} /\ probe.source = "http") =>
        probe.contacted \subseteq {IP1}

(***************************************************************************)
(* SessionSpec: one rtsp.Client after NewClient, its exported methods      *)
(* called in any order by the code that owns it.  The connection carries a *)
(* deadline: once it has passed, every Write and Read on it fails.         *)
(***************************************************************************)
MaxCalls == 3

\* What readResponse meets after a request was written: the deadline passes
\* (Err), or a response with a status; a 401 may carry WWW-Authenticate, a
\* SETUP response may carry a Session header.
ReadOutcomes ==
    { [Err |-> TRUE, StatusCode |-> 0, Challenge |-> FALSE, Session |-> ""],
      [Err |-> FALSE, StatusCode |-> 200, Challenge |-> FALSE, Session |-> ""],
      [Err |-> FALSE, StatusCode |-> 200, Challenge |-> FALSE, Session |-> "S1"],
      [Err |-> FALSE, StatusCode |-> 401, Challenge |-> TRUE, Session |-> ""],
      [Err |-> FALSE, StatusCode |-> 401, Challenge |-> FALSE, Session |-> ""] }

SessionInit ==
    /\ MergeIdle
    /\ ScanIdle
    /\ PoolIdle
    /\ ClockIdle
    /\ StampIdle
    /\ RegistryIdle
    /\ ProbeIdle
    /\ devicesMap = EmptyMap
    /\ client = [pc |-> "session", cseq |-> 1, sessionID |-> "", authMethod |-> "",
                 closed |-> FALSE,     \* conn.Close was called
                 expired |-> FALSE,    \* the deadline of conn has passed
                 calls |-> 0,
                 log |-> <<>>]         \* the requests written, with what was read

\* Client.sendRequest: cseq++, the request is built and written; a Write on
\* a closed connection or after the deadline fails and nothing is sent.
\* After the Write the deadline is set anew and the response is read.
sessionRequest(cl, method, session, out) ==
    IF cl.closed \/ cl.expired
    THEN [cl EXCEPT !.cseq = @ + 1]
    ELSE [cl EXCEPT !.cseq = @ + 1,
                    !.expired = out.Err,
                    !.log = Append(@, [Method |-> method, CSeq |-> cl.cseq + 1,
                                       Session |-> session, Err |-> out.Err,
                                       StatusCode |-> out.StatusCode])]

\* Client.Options
SessionOptions(out) ==
    /\ client.pc = "session"
    /\ client.calls < MaxCalls
    /\ client' = [sessionRequest(client, "OPTIONS", "", out) EXCEPT !.calls = @ + 1]
    /\ UNCHANGED rtspFrame

\* Client.Describe: the request is repeated once after a 401 that carries
\* WWW-Authenticate.
SessionDescribe(out, again) ==
    /\ client.pc = "session"
    /\ client.calls < MaxCalls
    /\ LET first == sessionRequest(client, "DESCRIBE", "", out)
           answered == ~(client.closed \/ client.expired) /\ ~out.Err
       IN  client' =
              IF answered /\ out.StatusCode = 401 /\ out.Challenge
              THEN [sessionRequest([first EXCEPT !.authMethod = "Digest"],
                                   "DESCRIBE", "", again) EXCEPT !.calls = @ + 1]
              ELSE [first EXCEPT !.calls = @ + 1]
    /\ UNCHANGED rtspFrame

\* Client.Setup: the Session header of the response, when there is one, is
\* kept as sessionID.
Setup(out) ==
    /\ client.pc = "session"
    /\ client.calls < MaxCalls
    /\ LET after == sessionRequest(client, "SETUP", "", out)
           answered == ~(client.closed \/ client.expired) /\ ~out.Err
       IN  client' = [after EXCEPT !.calls = @ + 1,
                                   !.sessionID = IF answered /\ out.Session # ""
                                                 THEN out.Session ELSE @]
    /\ UNCHANGED rtspFrame

\* Client.Play: the Session header is sent when sessionID is set.
Play(out) ==
    /\ client.pc = "session"
    /\ client.calls < MaxCalls
    /\ client' = [sessionRequest(client, "PLAY", client.sessionID, out) EXCEPT !.calls = @ + 1]
    /\ UNCHANGED rtspFrame

\* Client.Close
Close ==
    /\ client.pc = "session"
    /\ ~client.closed
    /\ client' = [client EXCEPT !.closed = TRUE]
    /\ UNCHANGED rtspFrame

SessionNext ==
    \/ \E out \in ReadOutcomes : SessionOptions(out)
    \/ \E out \in ReadOutcomes : \E again \in ReadOutcomes : SessionDescribe(out, again)
    \/ \E out \in ReadOutcomes : Setup(out)
    \/ \E out \in ReadOutcomes : Play(out)
    \/ Close

SessionSpec == SessionInit /\ [][SessionNext]_vars

\* Request k of the log was answered with status 200.
Acked(k, method) ==
    /\ client.log[k].Method = method
    /\ ~client.log[k].Err
    /\ client.log[k].StatusCode = 200

\* C28: on one connection a SETUP is sent only after a DESCRIBE was answered,
\* a PLAY only after a SETUP was acknowledged, and no request is sent after
\* a request whose response timed out.
C28_SessionOrder ==
    client.pc = "session" =>
        \A k \in DOMAIN client.log :
            /\ client.log[k].Method = "SETUP" => \E j \in 1..(k - 1) : Acked(j, "DESCRIBE")
            /\ client.log[k].Method = "PLAY" => \E j \in 1..(k - 1) : Acked(j, "SETUP")
            /\ \A j \in 1..(k - 1) : ~client.log[j].Err

(***************************************************************************)
(* RtspDetectSpec: RTSPDetector.Detect on the first line of the answer to  *)
(* its OPTIONS request.  A line is a sequence of characters.               *)
(***************************************************************************)
\* The characters of the words the answers are made of.
Chars(s) ==
    CASE s = "RTSP/1.0" -> <<"R", "T", "S", "P", "/", "1", ".", "0">>
      [] s = "HTTP/1.1" -> <<"H", "T", "T", "P", "/", "1", ".", "1">>
      [] s = "RTSP/2.0" -> <<"R", "T", "S", "P", "/", "2", ".", "0">>
      [] s = "200" -> <<"2", "0", "0">>
      [] s = "401" -> <<"4", "0", "1">>
      [] s = "404" -> <<"4", "0", "4">>
      [] s = "500" -> <<"5", "0", "0">>
      [] s = "OK" -> <<"O", "K">>
      [] s = "Unauthorized" -> <<"U", "n", "a", "u", "t", "h", "o", "r", "i", "z", "e", "d">>
      [] s = "Not Found" -> <<"N", "o", "t", " ", "F", "o", "u", "n", "d">>
      [] s = "Error 200" -> <<"E", "r", "r", "o", "r", " ", "2", "0", "0">>
      [] s = "try RTSP/1.0" -> <<"t", "r", "y", " ", "R", "T", "S", "P", "/", "1", ".", "0">>
      [] OTHER -> <<>>

Versions == {"RTSP/1.0", "HTTP/1.1", "RTSP/2.0"}
StatusCodes == {"200", "401", "404", "500"}
ReasonPhrases == {"", "OK", "Unauthorized", "Not Found", "Error 200", "try RTSP/1.0"}

StatusLines == [Version : Versions, Status : StatusCodes, Reason : ReasonPhrases]

\* The line the server writes: version, status and reason phrase separated
\* by single spaces, then CRLF.
LineOf(sl) ==
    Chars(sl.Version) \o <<" ">> \o Chars(sl.Status)
        \o (IF sl.Reason = "" THEN <<>> ELSE <<" ">> \o Chars(sl.Reason)) \o <<"\r", "\n">>

\* strings.Contains
StringsContains(text, substr) ==
    \E i \in 1..(Len(text) - Len(substr) + 1) : SubSeq(text, i, i + Len(substr) - 1) = substr

RtspDetectInit ==
    /\ MergeIdle
    /\ ScanIdle
    /\ PoolIdle
    /\ ClockIdle
    /\ StampIdle
    /\ ClientIdle
    /\ RegistryIdle
    /\ devicesMap = EmptyMap
    /\ \E sl \in StatusLines : \E readOk \in BOOLEAN :
          probe = [pc |-> "connected", source |-> "rtsp", input |-> sl, readOk |-> readOk,
                   response |-> <<>>, available |-> FALSE, err |-> FALSE]

\* Detect after the connect: OPTIONS is written, the first line is read (a
\* failed read returns an error), and the line is tested with
\* strings.Contains for "RTSP/1.0" and then for "200" or "401".
RtspDetect ==
    /\ probe.pc = "connected"
    /\ probe.source = "rtsp"
    /\ LET response == LineOf(probe.input)
       IN  probe' =
              IF ~probe.readOk
              THEN [probe EXCEPT !.pc = "returned", !.err = TRUE]
              ELSE IF ~StringsContains(response, Chars("RTSP/1.0"))
              THEN [probe EXCEPT !.pc = "returned", !.response = response, !.err = TRUE]
              ELSE [probe EXCEPT
                      !.pc = "returned",
                      !.response = response,
                      !.available = StringsContains(response, Chars("200"))
                                       \/ StringsContains(response, Chars("401"))]
    /\ UNCHANGED tagFrame

RtspDetectNext == RtspDetect

RtspDetectSpec == RtspDetectInit /\ [][RtspDetectNext]_vars

\* C29: the RTSP detector reports the protocol as available exactly when
\* the first line of the response starts with RTSP/1.0 and its status is
\* 200 or 401, whatever the reason phrase.
C29_AcceptsOnlyRtsp200Or401 ==
    (probe.pc = "returned" /\ probe.source = "rtsp" /\ probe.readOk) =>
        (probe.available <=>
            (probe.input.Version = "RTSP/1.0" /\ probe.input.Status \in {"200", "401"}))

(***************************************************************************)
(* RtmpSpec: RTMPDetector.Detect after the connect.  The handshake blocks  *)
(* C1, S1, S2 have ChunkLen bytes (1536 in the program), so S0+S1+S2 has   *)
(* 1 + 2 * ChunkLen bytes (3073).                                          *)
(***************************************************************************)
ChunkLen == 2

HandshakeLen == 1 + 2 * ChunkLen

\* createC0C1: the version byte 3, then C1 (timestamp taken as 0, four zero
\* bytes, then byte(i % 256)).
createC0C1 == <<3>> \o [i \in 1..ChunkLen |-> 0]

\* What the peer sends after C0+C1: S0, S1 and S2 = C1, of which Arrived
\* bytes reach the client before the deadline, the first First of them in
\* time for the single conn.Read (First = 0: nothing arrives, Read fails).
RtmpPeers ==
    { p \in [S0 : {3, 6, 72}, S1 : [1..ChunkLen -> {1, 2}], Arrived : 0..HandshakeLen,
             First : 0..HandshakeLen] :
         /\ p.First <= p.Arrived
         /\ p.First = 0 <=> p.Arrived = 0 }

StreamOf(peer) == <<peer.S0>> \o peer.S1 \o [i \in 1..ChunkLen |-> 0]

RtmpInit ==
    /\ MergeIdle
    /\ ScanIdle
    /\ PoolIdle
    /\ ClockIdle
    /\ StampIdle
    /\ ClientIdle
    /\ RegistryIdle
    /\ devicesMap = EmptyMap
    /\ \E peer \in RtmpPeers :
          probe = [pc |-> "connected", source |-> "rtmp", peer |-> peer,
                   written |-> <<>>,    \* what conn.Write has sent, one entry per call
                   s0s1s2 |-> [i \in 1..HandshakeLen |-> 0],
                   available |-> FALSE, err |-> FALSE]

\* Detect: C0+C1 is written; one conn.Read fills the start of the zeroed
\* buffer with the bytes that have arrived and fails only when none has;
\* the first byte must be 3; bytes 1..1536 of the buffer are written as C2;
\* the protocol is available.
RtmpDetect ==
    /\ probe.pc = "connected"
    /\ probe.source = "rtmp"
    /\ LET n == probe.peer.First
           s0s1s2 == [i \in 1..HandshakeLen |->
                         IF i <= n THEN StreamOf(probe.peer)[i] ELSE probe.s0s1s2[i]]
           c2 == SubSeq(s0s1s2, 2, 1 + ChunkLen)
       IN  probe' =
              IF n = 0
              THEN [probe EXCEPT !.pc = "returned", !.written = <<createC0C1>>, !.err = TRUE]
              ELSE IF s0s1s2[1] # 3
              THEN [probe EXCEPT !.pc = "returned", !.written = <<createC0C1>>,
                                 !.s0s1s2 = s0s1s2, !.err = TRUE]
              ELSE [probe EXCEPT !.pc = "returned", !.written = <<createC0C1, c2>>,
                                 !.s0s1s2 = s0s1s2, !.available = TRUE]
    /\ UNCHANGED tagFrame

RtmpNext == RtmpDetect

RtmpSpec == RtmpInit /\ [][RtmpNext]_vars

\* C30: the RTMP detector reports the protocol as available only when all
\* 1 + 2 * ChunkLen bytes of S0+S1+S2 were received with S0 = 3 and C2 was
\* sent as the echo of the received S1; with fewer bytes before the
\* deadline the protocol is not confirmed.
C30_FullHandshakeOnly ==
    (probe.pc = "returned" /\ probe.source = "rtmp" /\ probe.available) =>
        /\ probe.peer.Arrived = HandshakeLen
        /\ probe.peer.S0 = 3
        /\ probe.written = <<createC0C1, probe.peer.S1>>

(***************************************************************************)
(* StreamsSpec: rtsp.Checker.DiscoverStreams on one camera.  A URL is the  *)
(* pair of the base URL and the path appended to it.                       *)
(***************************************************************************)
MaxPaths == 3

StreamPaths == {"/live", "/cam", "/"}

\* config.DefaultPaths: any list, repeated paths included.
DefaultPathLists == UNION {[1..n -> StreamPaths] : n \in 0..MaxPaths}

\* The paths used when config.DefaultPaths is empty.
BuiltinPaths ==
    <<"/Streaming/Channels/101", "/Streaming/Channels/1", "/live/main_stream", "/live",
      "/cam/realmonitor">>

\* baseURL: the port is left out when it is 554.
baseURL(deviceIP, port) ==
    IF port = 554 THEN <<"rtsp://", deviceIP>> ELSE <<"rtsp://", deviceIP, ":", port>>

StreamURL(base, path) == <<base, path>>

StreamsInit ==
    /\ MergeIdle
    /\ ScanIdle
    /\ PoolIdle
    /\ ClockIdle
    /\ StampIdle
    /\ ClientIdle
    /\ RegistryIdle
    /\ devicesMap = EmptyMap
    /\ \E paths \in DefaultPathLists : \E served \in SUBSET StreamPaths :
       \E port \in {554, 8554} :
          probe = [pc |-> "paths", source |-> "streams",
                   served |-> served,     \* the paths the camera answers DESCRIBE 200 on
                   baseURL |-> baseURL(IP1, port),
                   pathsToCheck |-> IF Len(paths) = 0 THEN BuiltinPaths ELSE paths,
                   idx |-> 1, discoveredStreams |-> <<>>]

\* c.CheckStream(url): the stream info with URL = url and Available = true
\* when the camera serves the path and the exchange succeeds, an error
\* otherwise.
CheckStreamFinds(p, path, ok) == ok /\ path \in p.served

\* One iteration of the loop over pathsToCheck: an available stream is
\* appended.
CheckPath(ok) ==
    /\ probe.pc = "paths"
    /\ probe.source = "streams"
    /\ probe.idx <= Len(probe.pathsToCheck)
    /\ LET path == probe.pathsToCheck[probe.idx]
           streamInfo == [URL |-> StreamURL(probe.baseURL, path), Available |-> TRUE]
       IN  probe' = [probe EXCEPT
                        !.idx = @ + 1,
                        !.discoveredStreams =
                            IF CheckStreamFinds(probe, path, ok) THEN Append(@, streamInfo) ELSE @]
    /\ UNCHANGED tagFrame

\* After the loop: the root path is checked and appended unless a stream
\* with the same URL is already in the list; the list is returned.
CheckRoot(ok) ==
    /\ probe.pc = "paths"
    /\ probe.source = "streams"
    /\ probe.idx > Len(probe.pathsToCheck)
    /\ LET rootStreamInfo == [URL |-> StreamURL(probe.baseURL, "/"), Available |-> TRUE]
           isDuplicate == \E k \in DOMAIN probe.discoveredStreams :
                              probe.discoveredStreams[k].URL = rootStreamInfo.URL
       IN  probe' = [probe EXCEPT
                        !.pc = "returned",
                        !.discoveredStreams =
                            IF CheckStreamFinds(probe, "/", ok) /\ ~isDuplicate
                            THEN Append(@, rootStreamInfo) ELSE @]
    /\ UNCHANGED tagFrame

StreamsNext ==
    \/ \E ok \in BOOLEAN : CheckPath(ok)
    \/ \E ok \in BOOLEAN : CheckRoot(ok)

StreamsSpec == StreamsInit /\ [][StreamsNext]_vars

\* C31: no two entries of the list DiscoverStreams returns have the same
\* URL, whatever the default-paths list.
C31_StreamsUniqueByURL ==
    (probe.pc = "returned" /\ probe.source = "streams") =>
        \A j, k \in DOMAIN probe.discoveredStreams :
            probe.discoveredStreams[j].URL = probe.discoveredStreams[k].URL => j = k

(***************************************************************************)
(* CodecSpec: normalizeAudioCodec and normalizeCodec of rtsp/parser.go on  *)
(* one codec name.  A name is a sequence of characters.                    *)
(***************************************************************************)
MaxNameLen == 4

CodecChars == {"P", "C", "M", "U", "A", "G", "7", "2", "u"}

CodecNames == UNION {[1..n -> CodecChars] : n \in 1..MaxNameLen}

\* strings.ToUpper on the characters that occur.
UpperChar(c) ==
    CASE c = "u" -> "U"
      [] c = "p" -> "P"
      [] c = "c" -> "C"
      [] c = "m" -> "M"
      [] c = "o" -> "O"
      [] c = "s" -> "S"
      [] OTHER -> c

ToUpper(s) == [i \in DOMAIN s |-> UpperChar(s[i])]

\* normalizeAudioCodec: the tests are made in this order, each with
\* strings.Contains on the upper-cased name.
normalizeAudioCodec(codec) ==
    LET upper == ToUpper(codec)
    IN  IF StringsContains(upper, <<"A", "A", "C">>) THEN <<"A", "A", "C">>
        ELSE IF StringsContains(upper, <<"P", "C", "M">>) THEN <<"P", "C", "M">>
        ELSE IF StringsContains(upper, <<"P", "C", "M", "U">>) \/ StringsContains(upper, <<"P", "C", "M", "A">>)
        THEN <<"G", ".", "7", "1", "1">>
        ELSE IF StringsContains(upper, <<"G", "7", "2", "2">>) THEN <<"G", ".", "7", "2", "2">>
        ELSE upper

\* normalizeCodec
normalizeCodec(codec) ==
    LET upper == ToUpper(codec)
    IN  IF StringsContains(upper, <<"H", "2", "6", "4">>) \/ StringsContains(upper, <<"H", ".", "2", "6", "4">>) \/ upper = <<"A", "V", "C">>
        THEN <<"H", ".", "2", "6", "4">>
        ELSE IF StringsContains(upper, <<"H", "2", "6", "5">>) \/ StringsContains(upper, <<"H", ".", "2", "6", "5">>)
                \/ upper = <<"H", "E", "V", "C">>
        THEN <<"H", ".", "2", "6", "5">>
        ELSE IF StringsContains(upper, <<"M", "J", "P", "E", "G">>) \/ StringsContains(upper, <<"J", "P", "E", "G">>)
        THEN <<"M", "J", "P", "E", "G">>
        ELSE IF StringsContains(upper, <<"M", "P", "E", "G", "4">>) \/ StringsContains(upper, <<"M", "P", "E", "G", "-", "4">>)
        THEN <<"M", "P", "E", "G", "-", "4">>
        ELSE upper

CodecInit ==
    /\ MergeIdle
    /\ ScanIdle
    /\ PoolIdle
    /\ ClockIdle
    /\ StampIdle
    /\ ClientIdle
    /\ RegistryIdle
    /\ devicesMap = EmptyMap
    /\ \E name \in CodecNames :
          probe = [pc |-> "input", source |-> "codec", name |-> name, out |-> <<>>]

\* parseAttribute, audio rtpmap: info.AudioCodec = normalizeAudioCodec(codec).
NormalizeAudio ==
    /\ probe.pc = "input"
    /\ probe.source = "codec"
    /\ probe' = [probe EXCEPT !.pc = "done", !.out = normalizeAudioCodec(probe.name)]
    /\ UNCHANGED tagFrame

CodecNext == NormalizeAudio

CodecSpec == CodecInit /\ [][CodecNext]_vars

\* The mapping of audio codec names as specified, names compared without
\* regard to case.
SpecifiedAudioCodec(name) ==
    LET upper == ToUpper(name)
    IN  CASE upper = <<"A", "A", "C">> -> <<"A", "A", "C">>
          [] upper = <<"P", "C", "M">> -> <<"P", "C", "M">>
          [] upper \in {<<"P", "C", "M", "U">>, <<"P", "C", "M", "A">>} -> <<"G", ".", "7", "1", "1">>
          [] upper = <<"G", "7", "2", "2">> -> <<"G", ".", "7", "2", "2">>
          [] OTHER -> upper

\* C34: audio codec normalisation maps AAC to "AAC", PCM to "PCM", PCMU and
\* PCMA to "G.711", G722 to "G.722" and any other name to its upper-case
\* form.
C34_AudioCodecMapping ==
    (probe.pc = "done" /\ probe.source = "codec") =>
        probe.out = SpecifiedAudioCodec(probe.name)

(***************************************************************************)
(* SdpSpec: the end of rtsp.CheckStream (the DESCRIBE response is checked  *)
(* and its body parsed) with rtsp.ParseSDP.  A body is the sequence of its *)
(* non-blank lines; a line is kept as what ParseSDP reads from it.         *)
(***************************************************************************)
MaxLines == 4

SdpLine(kind, media, codec, fps, resolution) ==
    [Kind |-> kind, Media |-> media, Codec |-> codec, FPS |-> fps, Resolution |-> resolution]

\* m=<media> 0 RTP/AVP 96; a=rtpmap:96 <codec>/90000; a=framerate:25;
\* a=x-dimensions:1920x1080; v=0 (a line ParseSDP ignores); text that is not
\* of the form x=value.
SdpLines ==
    { SdpLine("m", "video", <<>>, 0, <<>>),
      SdpLine("m", "audio", <<>>, 0, <<>>),
      SdpLine("m", "application", <<>>, 0, <<>>),
      SdpLine("rtpmap", "", <<"H", "2", "6", "4">>, 0, <<>>),
      SdpLine("rtpmap", "", <<"J", "P", "E", "G">>, 0, <<>>),
      SdpLine("framerate", "", <<>>, 25, <<>>),
      SdpLine("x-dimensions", "", <<>>, 0, <<1920, "x", 1080>>),
      SdpLine("v", "", <<>>, 0, <<>>),
      SdpLine("junk", "", <<>>, 0, <<>>) }

SdpBodies == UNION {[1..n -> SdpLines] : n \in 0..MaxLines}

VideoTrack == [Codec |-> <<>>, Resolution |-> <<>>, FPS |-> 0]
AudioTrack == [Codec |-> <<>>]

\* info := &StreamInfo{VideoTracks: []VideoTrack{}, AudioTracks: []AudioTrack{}}
NewStreamInfo ==
    [URL |-> "", Codec |-> <<>>, Resolution |-> <<>>, FPS |-> 0, AudioCodec |-> <<>>,
     Available |-> FALSE, VideoTracks |-> <<>>, AudioTracks |-> <<>>]

\* parseAttribute(line, media, info): media is the type of currentMedia.
parseAttribute(line, media, info) ==
    LET v == Len(info.VideoTracks)
        a == Len(info.AudioTracks)
    IN  CASE line.Kind = "rtpmap" /\ media = "video" /\ v > 0 ->
                [info EXCEPT !.VideoTracks[v].Codec = normalizeCodec(line.Codec),
                             !.Codec = normalizeCodec(line.Codec)]
          [] line.Kind = "rtpmap" /\ media = "audio" /\ a > 0 ->
                [info EXCEPT !.AudioTracks[a].Codec = normalizeAudioCodec(line.Codec),
                             !.AudioCodec = normalizeAudioCodec(line.Codec)]
          [] line.Kind = "framerate" /\ media = "video" /\ v > 0 ->
                [info EXCEPT !.VideoTracks[v].FPS = line.FPS, !.FPS = line.FPS]
          [] line.Kind = "x-dimensions" /\ media = "video" /\ v > 0 ->
                [info EXCEPT !.VideoTracks[v].Resolution = line.Resolution,
                             !.Resolution = line.Resolution]
          [] OTHER -> info

\* The body of the loop of ParseSDP for one line; st holds info and the
\* type of currentMedia ("" while it is nil).
ParseLine(st, line) ==
    CASE line.Kind = "m" /\ line.Media = "video" ->
            [currentMedia |-> "video",
             info |-> [st.info EXCEPT !.VideoTracks = Append(@, VideoTrack)]]
      [] line.Kind = "m" /\ line.Media = "audio" ->
            [currentMedia |-> "audio",
             info |-> [st.info EXCEPT !.AudioTracks = Append(@, AudioTrack)]]
      [] line.Kind \in {"rtpmap", "framerate", "x-dimensions"} /\ st.currentMedia # "" ->
            [st EXCEPT !.info = parseAttribute(line, st.currentMedia, st.info)]
      [] OTHER -> st

RECURSIVE ParseLines(_, _, _)
ParseLines(st, lines, i) ==
    IF i > Len(lines) THEN st ELSE ParseLines(ParseLine(st, lines[i]), lines, i + 1)

\* ParseSDP: the loop, then the primary fields are taken from the first
\* video and the first audio track.  The error result is always nil.
ParseSDP(sdp) ==
    LET info == ParseLines([currentMedia |-> "", info |-> NewStreamInfo], sdp, 1).info
        withVideo == IF Len(info.VideoTracks) > 0
                     THEN [info EXCEPT !.Codec = info.VideoTracks[1].Codec,
                                       !.Resolution = info.VideoTracks[1].Resolution,
                                       !.FPS = info.VideoTracks[1].FPS]
                     ELSE info
    IN  IF Len(withVideo.AudioTracks) > 0
        THEN [withVideo EXCEPT !.AudioCodec = withVideo.AudioTracks[1].Codec]
        ELSE withVideo

SdpInit ==
    /\ MergeIdle
    /\ ScanIdle
    /\ PoolIdle
    /\ ClockIdle
    /\ StampIdle
    /\ ClientIdle
    /\ RegistryIdle
    /\ devicesMap = EmptyMap
    /\ \E status \in {200, 404} : \E body \in SdpBodies :
          probe = [pc |-> "described", source |-> "sdp", StatusCode |-> status, Body |-> body,
                   err |-> "", info |-> NewStreamInfo]

\* CheckStream after client.Describe returned a response: a status other
\* than 200 and an empty body are errors; otherwise the body is parsed and
\* the stream is available.
CheckStreamParse ==
    /\ probe.pc = "described"
    /\ probe.source = "sdp"
    /\ probe' =
          IF probe.StatusCode # 200
          THEN [probe EXCEPT !.pc = "returned", !.err = "DESCRIBE returned status"]
          ELSE IF probe.Body = <<>>
          THEN [probe EXCEPT !.pc = "returned", !.err = "empty SDP response"]
          ELSE [probe EXCEPT
                  !.pc = "returned",
                  !.info = [ParseSDP(probe.Body) EXCEPT !.URL = "rtsp://10.0.0.5/stream1",
                                                        !.Available = TRUE]]
    /\ UNCHANGED tagFrame

SdpNext == CheckStreamParse

SdpSpec == SdpInit /\ [][SdpNext]_vars

\* C32: whenever DESCRIBE was answered 200 the check returns a stream info
\* with Available = true and no error, whatever the SDP body is.
C32_Describe200IsAvailable ==
    (probe.pc = "returned" /\ probe.source = "sdp" /\ probe.StatusCode = 200) =>
        (probe.err = "" /\ probe.info.Available)

\* The m= line that opened the section line k belongs to, 0 before the
\* first m= line.
SectionOf(lines, k) ==
    LET opened == {j \in 1..(k - 1) : lines[j].Kind = "m"}
    IN  IF opened = {} THEN 0 ELSE CHOOSE j \in opened : \A i \in opened : i <= j

\* The last line of the given kind in the section opened by line j, 0 when
\* there is none.
LastAttribute(lines, j, kind) ==
    LET hits == {k \in DOMAIN lines : lines[k].Kind = kind /\ SectionOf(lines, k) = j}
    IN  IF hits = {} THEN 0 ELSE CHOOSE k \in hits : \A i \in hits : i <= k

\* The video track of the section opened by the m=video line j.
SectionVideoTrack(lines, j) ==
    LET rtpmap == LastAttribute(lines, j, "rtpmap")
        framerate == LastAttribute(lines, j, "framerate")
        dimensions == LastAttribute(lines, j, "x-dimensions")
    IN  [Codec |-> IF rtpmap = 0 THEN <<>> ELSE normalizeCodec(lines[rtpmap].Codec),
         Resolution |-> IF dimensions = 0 THEN <<>> ELSE lines[dimensions].Resolution,
         FPS |-> IF framerate = 0 THEN 0 ELSE lines[framerate].FPS]

\* The m=video lines in order.
RECURSIVE VideoSections(_, _)
VideoSections(lines, i) ==
    IF i > Len(lines) THEN <<>>
    ELSE (IF lines[i].Kind = "m" /\ lines[i].Media = "video" THEN <<i>> ELSE <<>>)
            \o VideoSections(lines, i + 1)

\* C40: every attribute line counts for the section opened by the most
\* recent m= line only, so each video track holds the attributes of its own
\* section, and the primary codec, resolution and FPS are those of the
\* first m=video section.
C40_AttributesStayInTheirSection ==
    (probe.pc = "returned" /\ probe.source = "sdp" /\ probe.err = "") =>
        LET sections == VideoSections(probe.Body, 1)
        IN  /\ probe.info.VideoTracks =
                  [n \in DOMAIN sections |-> SectionVideoTrack(probe.Body, sections[n])]
            /\ Len(sections) > 0 =>
                  /\ probe.info.Codec = SectionVideoTrack(probe.Body, sections[1]).Codec
                  /\ probe.info.Resolution = SectionVideoTrack(probe.Body, sections[1]).Resolution
                  /\ probe.info.FPS = SectionVideoTrack(probe.Body, sections[1]).FPS

(***************************************************************************)
(* PagesSpec: the web-interface fallback of one detector invocation        *)
(* (checkWebInterfaceForHLS / DASH / MJPEG / WebRTC): a loop of client.Get *)
(* calls, each response closed by a defer statement inside the loop.       *)
(***************************************************************************)
\* Number of URLs the function goes through: schemes times pages (WebRTC:
\* pages, then JavaScript files, in the same function).
NumPages(detector) ==
    CASE detector = "HLS" -> 2 * 5
      [] detector = "MPEG-DASH" -> 2 * 6
      [] detector = "MJPEG" -> 2 * 5
      [] OTHER -> 2 * 6 + 2 * 4

PagesInit ==
    /\ MergeIdle
    /\ ScanIdle
    /\ PoolIdle
    /\ ClockIdle
    /\ StampIdle
    /\ ClientIdle
    /\ RegistryIdle
    /\ devicesMap = EmptyMap
    /\ \E detector \in HttpDetectors :
          probe = [pc |-> "loop", source |-> "pages", detector |-> detector, idx |-> 1,
                   open |-> 0,        \* responses whose Body is not closed yet
                   deferred |-> 0,    \* resp.Body.Close() calls deferred so far
                   found |-> FALSE]

\* client.Get(url) returns an error: continue.
PageGetFails ==
    /\ probe.pc = "loop"
    /\ probe.source = "pages"
    /\ probe.idx <= NumPages(probe.detector)
    /\ probe' = [probe EXCEPT !.idx = @ + 1]
    /\ UNCHANGED tagFrame

\* client.Get(url) returns a response; defer resp.Body.Close(); the status
\* is not 200, the read fails or the content does not match: continue.
PageNoMatch ==
    /\ probe.pc = "loop"
    /\ probe.source = "pages"
    /\ probe.idx <= NumPages(probe.detector)
    /\ probe' = [probe EXCEPT !.idx = @ + 1, !.open = @ + 1, !.deferred = @ + 1]
    /\ UNCHANGED tagFrame

\* client.Get(url) returns a response whose content matches: the response is
\* open while the function is about to return true.
PageMatch ==
    /\ probe.pc = "loop"
    /\ probe.source = "pages"
    /\ probe.idx <= NumPages(probe.detector)
    /\ probe' = [probe EXCEPT !.pc = "returning", !.open = @ + 1, !.deferred = @ + 1,
                              !.found = TRUE]
    /\ UNCHANGED tagFrame

\* The loops are over: the function is about to return false.
PagesExhausted ==
    /\ probe.pc = "loop"
    /\ probe.source = "pages"
    /\ probe.idx > NumPages(probe.detector)
    /\ probe' = [probe EXCEPT !.pc = "returning"]
    /\ UNCHANGED tagFrame

\* The function returns: the deferred calls run and close every response.
PagesReturn ==
    /\ probe.pc = "returning"
    /\ probe.source = "pages"
    /\ probe' = [probe EXCEPT !.pc = "returned", !.open = @ - probe.deferred, !.deferred = 0]
    /\ UNCHANGED tagFrame

PagesNext == PageGetFails \/ PageNoMatch \/ PageMatch \/ PagesExhausted \/ PagesReturn

PagesSpec == PagesInit /\ [][PagesNext]_vars

\* C33: at every moment of a detector invocation at most one HTTP response
\* opened by it is still open, the web-interface loops included.
C33_OneOpenResponse ==
    (probe.pc \in {"loop", "returning", "returned"} /\ probe.source = "pages") =>
        probe.open <= 1

(***************************************************************************)
(* Further claims on FairSweepSpec                                         *)
(***************************************************************************)
\* C36: scanPortsParallel terminates for every max_concurrency the
\* configuration can hold, 0 included: the call eventually returns.
C36_SweepTerminates == <>(sp.pc = "returned")

\* C37: after scanPortsParallel has returned, every host goroutine it
\* spawned eventually finishes and every semaphore slot is released again.
C37_SpawnedTasksFinish ==
    (sp.pc = "returned") ~>
        (/\ \A h \in Hosts : hostTask[h].st \in {"none", "finished"}
         /\ semaphore = 0)

(***************************************************************************)
(* Further claims on RegSpec                                               *)
(***************************************************************************)
\* C38: while the caller of GetDevice reads the record it was handed, and
\* the record is still the one stored under its key, no step of AddDevice
\* or UpdateDeviceState changes a field of that record.
C38_HandedOutRecordNotWritten ==
    [][(/\ registry.pc = "reg"
        /\ registry.reader.pc = "reading"
        /\ registry.reader.afterAdd
        /\ registry'.reader.afterAdd
        /\ registry.reader.ip \in DOMAIN registry.devices
        /\ registry.reader.ip \in DOMAIN registry'.devices)
          => registry'.devices[registry.reader.ip] = registry.devices[registry.reader.ip]]_vars

(***************************************************************************)
(* SnapSpec: DeviceRegistry with its Cache and the *models.Device objects  *)
(* both point to.  registry.heap[p] is the object at address p;            *)
(* registry.devices maps an IP to an address, as r.devices does, and a     *)
(* CachedDevice holds an address too.  Every method runs under r.mu or     *)
(* r.cache.mu and is one step.                                             *)
(***************************************************************************)
MaxObjects == 3
MaxInstant == 2

MACs == {"aa:01", "aa:02"}

NoDevices == [ip \in {} |-> 0]

\* DeviceRegistry.GetAllDevices(): the stored pointers, in one of the orders
\* of a range over r.devices.
GetAllDevices(r) == MapValueOrders(r.devices)

\* Cache fields after SaveToCache(devices) at instant now; devices is a
\* slice of pointers and CachedDevice.Device keeps the pointer.
SaveToCachePointers(cache, heap, devices, now) ==
    [cache EXCEPT
        !.devices = [ip \in {heap[devices[k]].IP : k \in DOMAIN devices} |->
                        [Device |-> devices[CHOOSE k \in DOMAIN devices :
                                               /\ heap[devices[k]].IP = ip
                                               /\ \A j \in DOMAIN devices :
                                                     heap[devices[j]].IP = ip => j <= k],
                         ExpiresAt |-> now + cache.defaultTTL]],
        !.lastScan = now,
        !.scanResults = devices]

\* The slices of pointers GetFromCache can return at instant now.
GetFromCachePointers(cache, now) ==
    IF cache.lastScan = 0 \/ now > cache.lastScan + cache.defaultTTL
    THEN {[found |-> FALSE, devices |-> <<>>]}
    ELSE LET valid == {ip \in DOMAIN cache.devices : now < cache.devices[ip].ExpiresAt}
         IN  IF valid = {}
             THEN {[found |-> FALSE, devices |-> <<>>]}
             ELSE {[found |-> TRUE, devices |-> [k \in DOMAIN order |-> cache.devices[order[k]].Device]]
                      : order \in Perms(valid)}

\* What a caller of GetFromCache reads through the returned pointers.
Deref(heap, result) ==
    [found |-> result.found, devices |-> [k \in DOMAIN result.devices |-> heap[result.devices[k]]]]

SnapInit ==
    /\ MergeIdle
    /\ ScanIdle
    /\ PoolIdle
    /\ ClockIdle
    /\ StampIdle
    /\ ClientIdle
    /\ ProbeIdle
    /\ devicesMap = EmptyMap
    /\ \E ttl \in 0..MaxTTL :
          registry = [pc |-> "snap", now |-> 1,
                      heap |-> <<>>,
                      devices |-> NoDevices,
                      cache |-> [devices |-> EmptyMap, defaultTTL |-> ttl, lastScan |-> 0,
                                 scanResults |-> <<>>],
                      lastOp |-> "NewDeviceRegistry"]

\* Wall-clock time passes.
SnapTick ==
    /\ registry.pc = "snap"
    /\ registry.now < MaxInstant
    /\ registry' = [registry EXCEPT !.now = @ + 1, !.lastOp = "tick"]
    /\ UNCHANGED cacheFrame

\* DeviceRegistry.AddDevice(device): the fields of the stored object are
\* overwritten in place, or the caller's object is stored.
SnapAddDevice(ip, mac) ==
    /\ registry.pc = "snap"
    /\ IF ip \in DOMAIN registry.devices
       THEN registry' = [registry EXCEPT
                            !.heap[registry.devices[ip]].MAC = mac,
                            !.heap[registry.devices[ip]].LastSeen = registry.now,
                            !.lastOp = "AddDevice"]
       ELSE /\ Len(registry.heap) < MaxObjects
            /\ registry' = [registry EXCEPT
                               !.heap = Append(@, [IP |-> ip, MAC |-> mac,
                                                   DiscoveredAt |-> registry.now,
                                                   LastSeen |-> registry.now]),
                               !.devices = [k \in DOMAIN @ \cup {ip} |->
                                               IF k = ip THEN Len(registry.heap) + 1 ELSE @[k]],
                               !.lastOp = "AddDevice"]
    /\ UNCHANGED cacheFrame

\* DeviceRegistry.UpdateDeviceState(ip, updateFunc), with an updateFunc that
\* sets the MAC.
SnapUpdateDeviceState(ip, mac) ==
    /\ registry.pc = "snap"
    /\ IF ip \in DOMAIN registry.devices
       THEN registry' = [registry EXCEPT
                            !.heap[registry.devices[ip]].MAC = mac,
                            !.heap[registry.devices[ip]].LastSeen = registry.now,
                            !.lastOp = "UpdateDeviceState"]
       ELSE registry' = [registry EXCEPT !.lastOp = "UpdateDeviceState"]
    /\ UNCHANGED cacheFrame

\* DeviceRegistry.RemoveDevice(ip)
SnapRemoveDevice(ip) ==
    /\ registry.pc = "snap"
    /\ registry' = [registry EXCEPT
                       !.devices = [k \in DOMAIN @ \ {ip} |-> @[k]],
                       !.lastOp = "RemoveDevice"]
    /\ UNCHANGED cacheFrame

\* DeviceRegistry.Clear()
SnapClear ==
    /\ registry.pc = "snap"
    /\ registry' = [registry EXCEPT !.devices = NoDevices, !.lastOp = "Clear"]
    /\ UNCHANGED cacheFrame

\* r.SaveToCache(r.GetAllDevices())
SnapSaveToCache ==
    /\ registry.pc = "snap"
    /\ \E devices \in GetAllDevices(registry) :
          registry' = [registry EXCEPT
                          !.cache = SaveToCachePointers(@, registry.heap, devices, registry.now),
                          !.lastOp = "SaveToCache"]
    /\ UNCHANGED cacheFrame

\* DeviceRegistry.GetFromCache(): no field of the registry or of the cache
\* is written.
SnapGetFromCache ==
    /\ registry.pc = "snap"
    /\ \E r \in GetFromCachePointers(registry.cache, registry.now) :
          registry' = [registry EXCEPT !.lastOp = "GetFromCache"]
    /\ UNCHANGED cacheFrame

\* DeviceRegistry.ClearCache()
SnapClearCache ==
    /\ registry.pc = "snap"
    /\ registry' = [registry EXCEPT
                       !.cache = [@ EXCEPT !.devices = EmptyMap, !.lastScan = 0,
                                           !.scanResults = <<>>],
                       !.lastOp = "ClearCache"]
    /\ UNCHANGED cacheFrame

SnapNext ==
    \/ SnapTick
    \/ \E ip \in IPs, mac \in MACs : SnapAddDevice(ip, mac)
    \/ \E ip \in IPs, mac \in MACs : SnapUpdateDeviceState(ip, mac)
    \/ \E ip \in IPs : SnapRemoveDevice(ip)
    \/ SnapClear
    \/ SnapSaveToCache
    \/ SnapGetFromCache
    \/ SnapClearCache

SnapSpec == SnapInit /\ [][SnapNext]_vars

(***************************************************************************)
(* Claims on SnapSpec                                                      *)
(***************************************************************************)
\* The results GetFromCache can hand out in a registry state, as the caller
\* reads them.
CachedValues(r) == {Deref(r.heap, res) : res \in GetFromCachePointers(r.cache, r.now)}

\* C39: a step of AddDevice, UpdateDeviceState, RemoveDevice or Clear leaves
\* the attribute values of the devices GetFromCache returns as they were,
\* and a step of ClearCache leaves the registry's device map as it was.
C39_RegistryWritesKeepSnapshot ==
    [][registry.pc = "snap" =>
          /\ registry'.lastOp \in {"AddDevice", "UpdateDeviceState", "RemoveDevice", "Clear"}
                => CachedValues(registry') = CachedValues(registry)
          /\ registry'.lastOp = "ClearCache"
                => registry'.devices = registry.devices]_vars

\* Cross-checks: the two map-only writes and ClearCache taken alone.
C39_RemovalsKeepSnapshot ==
    [][registry.pc = "snap" =>
          /\ registry'.lastOp \in {"RemoveDevice", "Clear"}
                => CachedValues(registry') = CachedValues(registry)
          /\ registry'.lastOp = "ClearCache"
                => (registry'.devices = registry.devices /\ registry'.heap = registry.heap)]_vars

(***************************************************************************)
(* FairHostSpec: the loop of GetSubnetHosts keeps running while it can.    *)
(***************************************************************************)
FairHostSpec == HostSpec /\ WF_vars(LoopIteration) /\ WF_vars(GetSubnetHostsReturn)

\* C35: for every CIDR, GetSubnetHosts returns, the prefix of length 0 and
\* the networks that end at the all-ones address included.
C35_GetSubnetHostsTerminates == <>(probe.pc = "returned")

\* Cross-checks: every prefix of at least one bit returns, and only the
\* prefix of length 0 brings the loop back to the address it started from.
C35_LongerPrefixesReturn == (probe.ipNet.Bits >= 1) => <>(probe.pc = "returned")

C35_NeverBackAtTheStart ==
    (probe.pc = "loop" /\ probe.source = "hosts" /\ probe.hosts # <<>>) =>
        probe.ip # Mask(probe.ipNet.IP, probe.ipNet.Bits)

C35_OnlyPrefixZeroComesBack ==
    (probe.pc = "loop" /\ probe.source = "hosts" /\ probe.hosts # <<>>
     /\ probe.ipNet.Bits >= 1) =>
        probe.ip # Mask(probe.ipNet.IP, probe.ipNet.Bits)

\* A network that ends at the all-ones address has returned its hosts.
C35_WrapReturns ==
    ~(/\ probe.pc = "returned"
      /\ probe.source = "hosts"
      /\ probe.ip = [i \in 1..AddrLen |-> 0]
      /\ probe.hosts # <<>>)

====
